---- MODULE Spec2Model ----
(***************************************************************************)
(* A model of the backup-orchestration engine of repo-backup:              *)
(*   src/src/main.py          RepoBackupOrchestrator (selection, scheduler) *)
(*   src/src/local_backup.py  LocalBackup, robust_rmtree                    *)
(*   src/src/s3_uploader.py   S3Uploader                                    *)
(*                                                                         *)
(* The specifications share the definitions of the backends:               *)
(*   Spec        run_backup: the worker pool, the counters, the end-of-run *)
(*               cleanup and the exit status; each backend call is two     *)
(*               steps (the clone, then the remainder of the call).        *)
(*   SpecRestart Spec, started with what a killed earlier run left under   *)
(*               the temp roots.                                           *)
(*   SpecTask    one repository backed up repeatedly by one backend, every *)
(*               step of the backend its own action; commits are pushed    *)
(*               between the calls.                                        *)
(*   SpecPool    Spec, started with every worker count the command line    *)
(*               can give, the absent one included.                        *)
(*   SpecUpload  S3Uploader.upload_repository called repeatedly, with and  *)
(*               without a local backup path, while the clock advances.    *)
(*   SpecResolve get_specific_repositories, one pattern per step.          *)
(*   SpecOrchestrator run_backup from its first statement, with the        *)
(*               discovery of get_all_repositories one provider per step,  *)
(*               and backup_repository called on its own.                  *)
(*   SpecRm      robust_rmtree, statement by statement.                    *)
(*                                                                         *)
(* External programs (git, git-lfs, the object store, the filesystem) are  *)
(* the environment: every result the code distinguishes is a               *)
(* nondeterministic choice, except where the result is a function of the   *)
(* mirror (which commits exist, whether .gitattributes names LFS).         *)
(***************************************************************************)
EXTENDS Integers, Sequences, FiniteSets, TLC

VARIABLES
    cfg,          \* the orchestrator's configuration (main.py:566-599, 938-945)
    repos,        \* the resolved list run_backup iterates over
    mirror,       \* clone_url -> the remote repository's refs
    clock,        \* the wall clock, in seconds
    git_lfs,      \* whether `git lfs version` succeeds on this host
    tasks,        \* per task: the locals of backup_repository and of the backend call
    ws,           \* the directories that exist under the temp roots
    tmp_files,    \* the temporary artifact files under the S3 temp root
    local_files,  \* the files under the local backup root
    s3_objects,   \* the objects of the bucket
    phase,        \* where run_backup is
    successful,   \* run_backup's counter
    failed,       \* run_backup's counter
    exit_status,  \* "running", "0", "1"
    epoch,        \* the number of the backend call (SpecTask) or of the run (Spec)
    hist,         \* SpecTask: one record per finished backend call
    faults,       \* Spec: the external calls that have failed in this run
    sel,          \* the state of get_specific_repositories (SpecResolve) or of
                  \* get_all_repositories (SpecOrchestrator)
    rm            \* SpecRm: the frame of one call of robust_rmtree

vars == <<cfg, repos, mirror, clock, git_lfs, tasks, ws, tmp_files, local_files,
          s3_objects, phase, successful, failed, exit_status, epoch, hist, faults, sel, rm>>

(***************************************************************************)
(* Bounds of the model.                                                    *)
(***************************************************************************)
MaxRepos == 2      \* length of the resolved list
MaxWorkers == 2    \* largest worker pool
MaxCalls == 2      \* backend calls per behaviour of SpecTask
MaxTime == 2       \* latest commit timestamp / wall-clock second
MaxFaults == 1     \* Spec: failing external calls per run

(***************************************************************************)
(* Program constants.                                                      *)
(***************************************************************************)
max_retries == 3   \* robust_rmtree's default
PARALLEL_WORKERS == 5   \* the pool size when no worker count is given

(***************************************************************************)
(* Repository descriptors (base.py Repository).  Equality of two records   *)
(* is equality of all their fields, as for the dataclass.                  *)
(***************************************************************************)
\* Python's None, for the Optional fields.
None == "None"

Repository(n, o, p, url, size, private, branch) ==
    [name |-> n, owner |-> o, platform |-> p, clone_url |-> url, size_kb |-> size,
     is_private |-> private, default_branch |-> branch]

Urls == {"u1", "u2", "u3"}

\* acme/app and other/app have the same name; the third entry is acme/app again
\* as a second catalog query reports it (another size).  The platform reports
\* no default branch for acme/app.
Catalog ==
    << Repository("app", "acme", "github", "u1", 10, TRUE, None),
       Repository("app", "other", "github", "u2", 20, FALSE, "main"),
       Repository("lib", "acme", "gitlab", "u3", 30, TRUE, "main"),
       Repository("app", "acme", "github", "u1", 11, TRUE, None) >>

Triple(r) == <<r.platform, r.owner, r.name>>

(***************************************************************************)
(* The remote repository: head is the commit time of HEAD's tip (0: HEAD   *)
(* is unborn), all the latest commit time over all refs (0: no commit at   *)
(* all), lfs whether HEAD:.gitattributes holds a `filter=lfs` line.        *)
(***************************************************************************)
\* `git log -1 --format=%cd --date=format:%Y%m%d_%H%M%S [--all]`: rc and stdout.
\* Without --all the walk starts at HEAD and fails when HEAD is unborn; with
\* --all it starts at every ref and prints nothing when there is none.
strftime(t) == "20240101_10000" \o ToString(t)

GitLog(m, all_refs) ==
    IF all_refs
    THEN [rc |-> 0, stdout |-> IF m.all = 0 THEN "" ELSE strftime(m.all)]
    ELSE IF m.head = 0
         THEN [rc |-> 128, stdout |-> ""]
         ELSE [rc |-> 0, stdout |-> strftime(m.head)]

\* `git rev-list -n 1 --all`: stdout is empty exactly when no ref has a commit.
RevListAll(m) == [rc |-> 0, stdout |-> IF m.all = 0 THEN "" ELSE "sha"]

\* `git show HEAD:.gitattributes` succeeds and contains "filter=lfs".
ShowsLfsFilter(m) == m.head > 0 /\ m.lfs

\* `git bundle create <file> --all` refuses a repository without commits.
RefusesEmptyBundle(m) == m.all = 0

(***************************************************************************)
(* Paths.                                                                  *)
(***************************************************************************)
LocalTempDir == "backup/tmp/repo-backup"     \* LocalBackup.temp_dir, no work_dir
S3TempDir == "/var/tmp/repo-backup"          \* S3Uploader.temp_dir, no work_dir
S3Prefix == "repos"

\* uuid.uuid4().hex[:8]: a fresh value per backend call.
uuid4(i) == "id" \o ToString((epoch - 1) * (MaxRepos + 1) + i)

LocalRepoPath(r, i) == LocalTempDir \o "/" \o r.name \o "_" \o uuid4(i) \o "_clone"

\* A destination directory per platform only.
PlatformDirWithoutOwner(r) == "backup/" \o r.platform

\* platform_dir = self.backup_path / repo.platform / repo.owner
PlatformDir(r) == "backup/" \o r.platform \o "/" \o r.owner

\* A bundle named by the repository alone.
BundlePathWithoutFingerprint(r, fp) == PlatformDir(r) \o "/" \o r.name \o ".bundle"

BundlePath(r, fp) == PlatformDir(r) \o "/" \o r.name \o "_" \o fp \o ".bundle"

ArchivePath(r, fp) == PlatformDir(r) \o "/" \o r.name \o "_" \o fp \o ".tar.gz"

LfsArchivePath(r, fp) == PlatformDir(r) \o "/" \o r.name \o "_" \o fp \o "_lfs.tar.gz"

Exists(files, path) == \E f \in files : f.path = path

File(path, whole) == [path |-> path, whole |-> whole]

(***************************************************************************)
(* A task's locals.                                                        *)
(***************************************************************************)
NoTask ==
    [pc |-> "pending", be |-> "none", repo_path |-> "", tmp_path |-> "", fp |-> "",
     snap |-> [head |-> 0, all |-> 0, lfs |-> FALSE],
     has_lfs |-> FALSE, ret |-> "none", outcome |-> "none", msg |-> "none",
     rm_count |-> 0, bad |-> {}, wrote |-> {}, verified |-> FALSE, result_local |-> "none", result_s3 |-> "none",
     out_local |-> "none", out_s3 |-> "none", result |-> "none",
     steps |-> <<>>, found |-> FALSE, clones |-> 0, dest |-> {}]

\* What a backend step reads and writes: the task and the filesystems.
Pack(i) ==
    [t |-> tasks[i], ws |-> ws, tmp_files |-> tmp_files,
     local_files |-> local_files, s3_objects |-> s3_objects]

Store(i, s) ==
    /\ tasks' = [tasks EXCEPT ![i] = s.t]
    /\ ws' = s.ws
    /\ tmp_files' = s.tmp_files
    /\ local_files' = s.local_files
    /\ s3_objects' = s.s3_objects

\* The element of a one-element set.
Only(S) == CHOOSE x \in S : TRUE

\* An external call of the task has failed: bad collects which.
Bad(s, call) == [s EXCEPT !.t.bad = @ \cup {call}]

\* The call has begun the step: steps lists what it did, in order.
Did(s, step) == [s EXCEPT !.t.steps = Append(@, step)]

\* The call has probed or written the destination entry `path`.
Touch(s, path) == [s EXCEPT !.t.dest = @ \cup {path}]

\* `return value`, with the line the backend logged before it.
Return(s, value, outcome, msg) ==
    [s EXCEPT !.t.pc = "ret", !.t.ret = value, !.t.outcome = outcome, !.t.msg = msg]

(***************************************************************************)
(* robust_rmtree: up to max_retries attempts; e.rm_fails of them raise     *)
(* OSError before one succeeds.  The callers ignore the return value.      *)
(***************************************************************************)
robust_rmtree(s, path, e) ==
    IF path \notin s.ws THEN s
    ELSE IF e.rm_fails < max_retries
         THEN [Did(s, "cleanup") EXCEPT !.ws = @ \ {path}, !.t.rm_count = @ + 1]
         ELSE Bad(Did(s, "cleanup"), "rm")

\* `if repo_path.exists(): robust_rmtree(repo_path, self.logger)`
LocalCleanup(s, e) == robust_rmtree(s, s.t.repo_path, e)


(***************************************************************************)
(* LocalBackup._direct_backup and LocalBackup._archive_backup, step by     *)
(* step.  Every operator takes the packed state s, the repository r and    *)
(* the environment's answers e, and is the identity unless the task is at  *)
(* its step.  The two methods share the text of the clone, fingerprint and *)
(* LFS steps in the source.                                                *)
(***************************************************************************)
LocalEnv ==
    [clone_ok : BOOLEAN, fetch_ok : BOOLEAN, seal_ok : BOOLEAN, lfs_dir : BOOLEAN,
     tar : {"ok", "open_fails", "write_fails"}, rm_fails : {0, max_retries}]

At(s, be, pc) == s.t.be = be /\ s.t.pc = pc

\* `git clone --mirror` into a fresh repo_path; a failed clone leaves nothing.
LocalClone(s, r, i, e) ==
    IF ~At(s, "local", "clone") THEN s
    ELSE LET path == LocalRepoPath(r, i)
             s1 == [Did(s, "clone") EXCEPT !.t.repo_path = path, !.t.clones = @ + 1]
         IN  IF e.clone_ok /\ path \notin s.ws
             THEN [s1 EXCEPT !.t.pc = "log", !.t.snap = mirror[r.clone_url],
                             !.ws = @ \cup {path}]
             ELSE Return(IF e.clone_ok THEN s1 ELSE Bad(s1, "clone"),
                         "False", "Failed", "clone")

\* The fingerprint: the commit date of HEAD's tip, or Skipped-Empty.
LocalFingerprint(s0, r, e) ==
    IF ~At(s0, "local", "log") THEN s0
    ELSE LET s == Did(s0, "fingerprint")
             last_commit_result == GitLog(s.t.snap, FALSE)
             check_empty == RevListAll(s.t.snap)
         IN  IF last_commit_result.rc # 0
             THEN IF check_empty.rc # 0 \/ check_empty.stdout = ""
                  THEN Return(LocalCleanup(s, e), "True", "Skipped-Empty", "none")
                  ELSE Return(s, "False", "Failed", "log")
             ELSE [s EXCEPT !.t.pc = "exists",
                            !.t.fp = IF last_commit_result.stdout = ""
                                     THEN strftime(clock)
                                     ELSE last_commit_result.stdout]

LocalArtifactPath(r, fp) ==
    IF cfg.method = "direct" THEN BundlePath(r, fp) ELSE ArchivePath(r, fp)

\* `if bundle_path.exists()` / `if archive_path.exists()`
LocalExistsCheck(s0, r, e) ==
    IF ~At(s0, "local", "exists") THEN s0
    ELSE LET s == Touch(Did(s0, "exists"), LocalArtifactPath(r, s0.t.fp))
         IN  IF Exists(s.local_files, LocalArtifactPath(r, s.t.fp))
             THEN Return(LocalCleanup([s EXCEPT !.t.found = TRUE], e),
                         "True", "Skipped-Exists", "none")
             ELSE [s EXCEPT !.t.pc = "lfs"]

\* The LFS marker, `git lfs version`, `git lfs fetch --all`.
LocalLfs(s0, r, e) ==
    IF ~At(s0, "local", "lfs") THEN s0
    ELSE LET s == Did(s0, "lfs")
         IN  IF ShowsLfsFilter(s.t.snap)
             THEN IF ~git_lfs
                  THEN Return(LocalCleanup(s, e), "False", "Failed", "lfs_missing")
                  ELSE IF ~e.fetch_ok
                       THEN Return(LocalCleanup(Bad(Did(s, "lfs_fetch"), "fetch"), e),
                                   "False", "Failed", "lfs_fetch")
                       ELSE [Did(s, "lfs_fetch") EXCEPT !.t.pc = "seal",
                                                        !.t.has_lfs = TRUE]
             ELSE [s EXCEPT !.t.pc = "seal"]

\* Writing a file replaces what was stored under the path.
WriteFile(files, path, whole) ==
    {f \in files : f.path # path} \cup {File(path, whole)}

\* The `except Exception` clause of _direct_backup / _archive_backup.
LocalExcept(s, e) == Return(LocalCleanup(s, e), "False", "Failed", "exception")

\* `git bundle create <bundle_path> --all`
DirectBundle(s0, r, e) ==
    IF ~At(s0, "local", "seal") THEN s0
    ELSE LET s == Did(s0, "seal")
         IN  IF RefusesEmptyBundle(s.t.snap)
             THEN Return(LocalCleanup(s, e), "True", "Skipped-Empty", "none")
             ELSE IF ~e.seal_ok
                  THEN Return(Bad(s, "seal"), "False", "Failed", "bundle")
                  ELSE [Touch(Did(s, "write"), BundlePath(r, s.t.fp)) EXCEPT
                             !.t.pc = "sidecar",
                             !.t.wrote = @ \cup {BundlePath(r, s.t.fp)},
                             !.local_files = WriteFile(@, BundlePath(r, s.t.fp), TRUE)]

\* The sidecar of lfs/objects; tarfile raising ends in the except clause.
DirectSidecar(s0, r, e) ==
    IF ~At(s0, "local", "sidecar") THEN s0
    ELSE IF s0.t.has_lfs /\ e.lfs_dir
         THEN LET p == LfsArchivePath(r, s0.t.fp)
                  s == Touch(Did(s0, "write"), p)
              IN  CASE e.tar = "ok" ->
                         [s EXCEPT !.t.pc = "cleanup", !.t.wrote = @ \cup {p},
                                   !.local_files = WriteFile(@, p, TRUE)]
                    [] e.tar = "open_fails" -> LocalExcept(Bad(s, "tar"), e)
                    [] OTHER ->
                         LocalExcept([Bad(s, "tar") EXCEPT !.t.wrote = @ \cup {p},
                                        !.local_files = WriteFile(@, p, FALSE)], e)
         ELSE [s0 EXCEPT !.t.pc = "cleanup"]

\* `with tarfile.open(archive_path, "w:gz") as tar: tar.add(repo_path, ...)`
ArchiveTar(s0, r, e) ==
    IF ~At(s0, "local", "seal") THEN s0
    ELSE LET p == ArchivePath(r, s0.t.fp)
             s == Touch(Did(Did(s0, "seal"), "write"), p)
         IN  CASE e.tar = "ok" ->
                    [s EXCEPT !.t.pc = "cleanup", !.t.wrote = @ \cup {p},
                              !.local_files = WriteFile(@, p, TRUE)]
               [] e.tar = "open_fails" -> LocalExcept(Bad(s, "tar"), e)
               [] OTHER ->
                    LocalExcept([Bad(s, "tar") EXCEPT !.t.wrote = @ \cup {p},
                                   !.local_files = WriteFile(@, p, FALSE)], e)

LocalSeal(s, r, e) ==
    IF cfg.method = "direct" THEN DirectBundle(s, r, e) ELSE ArchiveTar(s, r, e)

\* The last lines: remove repo_path, return True.
LocalFinish(s, r, e) ==
    IF ~At(s, "local", "cleanup") THEN s
    ELSE Return(LocalCleanup(s, e), "True", "Success", "none")

\* Everything after the clone, in the order of the source: each step is
\* applied to the state the step before it left.
LocalRest(s, r, e) ==
    Only({LocalFinish(s5, r, e) : s5 \in
         {DirectSidecar(s4, r, e) : s4 \in
         {LocalSeal(s3, r, e) : s3 \in
         {LocalLfs(s2, r, e) : s2 \in
         {LocalExistsCheck(s1, r, e) : s1 \in
         {LocalFingerprint(s, r, e)}}}}}})


(***************************************************************************)
(* Strings: str.lower, str.strip, fnmatch and the order of str.__lt__.     *)
(***************************************************************************)
Char(s, i) == SubSeq(s, i, i)

From(s, i) == SubSeq(s, i, Len(s))

Contains(s, c) == \E i \in 1..Len(s) : Char(s, i) = c

startswith(s, prefix) ==
    Len(s) >= Len(prefix) /\ SubSeq(s, 1, Len(prefix)) = prefix

\* str.lower, on ASCII.
ascii_uppercase == "ABCDEFGHIJKLMNOPQRSTUVWXYZ"

ascii_lowercase == "abcdefghijklmnopqrstuvwxyz"

\* The lower-case letter of every upper-case letter.
LowerTable ==
    [c \in {Char(ascii_uppercase, i) : i \in 1..Len(ascii_uppercase)} |->
        Char(ascii_lowercase, CHOOSE i \in 1..Len(ascii_uppercase) :
                                 Char(ascii_uppercase, i) = c)]

LowerChar(c) == IF c \in DOMAIN LowerTable THEN LowerTable[c] ELSE c

RECURSIVE lower(_)
lower(s) == IF s = "" THEN "" ELSE LowerChar(Char(s, 1)) \o lower(Tail(s))

\* str.strip, for blanks.
RECURSIVE strip(_)
strip(s) ==
    IF s = "" THEN ""
    ELSE IF Char(s, 1) = " " THEN strip(Tail(s))
    ELSE IF Char(s, Len(s)) = " " THEN strip(SubSeq(s, 1, Len(s) - 1))
    ELSE s

\* fnmatch.fnmatch on a POSIX host: `*`, `?`, `[seq]`, `[!seq]` (no ranges),
\* everything else literal; a `[` that is never closed is literal.
ClassEnd(p) ==
    LET from == IF Len(p) >= 2 /\ Char(p, 2) = "!" THEN 4 ELSE 3
        ends == {j \in from..Len(p) : Char(p, j) = "]"}
    IN  IF ends = {} THEN 0 ELSE CHOOSE j \in ends : \A k \in ends : j <= k

RECURSIVE fnmatch(_, _)
fnmatch(name, pat) ==
    IF pat = "" THEN name = ""
    ELSE LET c == Char(pat, 1)
         IN  CASE c = "*" ->
                    \E k \in 1..(Len(name) + 1) : fnmatch(From(name, k), Tail(pat))
               [] c = "?" -> name # "" /\ fnmatch(Tail(name), Tail(pat))
               [] c = "[" /\ ClassEnd(pat) > 0 ->
                    LET j == ClassEnd(pat)
                        neg == Char(pat, 2) = "!"
                        seq == SubSeq(pat, IF neg THEN 3 ELSE 2, j - 1)
                    IN  /\ name # ""
                        /\ Contains(seq, Char(name, 1)) # neg
                        /\ fnmatch(Tail(name), From(pat, j + 1))
               [] OTHER -> /\ name # "" /\ Char(name, 1) = c
                           /\ fnmatch(Tail(name), Tail(pat))

\* The characters of file names, in the order of their code points.
ascii_order == ".0123456789ABCDEFGHIJKLMNOPQRSTUVWXYZ_abcdefghijklmnopqrstuvwxyz"

OrdTable ==
    [c \in {Char(ascii_order, i) : i \in 1..Len(ascii_order)} |->
        CHOOSE i \in 1..Len(ascii_order) : Char(ascii_order, i) = c]

\* a < b for two strings: the first character that differs decides, and a
\* proper prefix is less.
RECURSIVE StrLess(_, _)
StrLess(a, b) ==
    IF b = "" THEN FALSE
    ELSE IF a = "" THEN TRUE
    ELSE IF Char(a, 1) = Char(b, 1) THEN StrLess(Tail(a), Tail(b))
    ELSE OrdTable[Char(a, 1)] < OrdTable[Char(b, 1)]


(***************************************************************************)
(* S3Uploader._direct_upload and S3Uploader._archive_upload.               *)
(***************************************************************************)
S3Env ==
    [clone_ok : BOOLEAN, fetch_ok : BOOLEAN, seal_ok : BOOLEAN,
     tar : {"ok", "open_fails", "write_fails"},
     head : {"ok", "client_error", "other_error"},
     upload_ok : BOOLEAN, verify_ok : BOOLEAN, rmtree_ok : BOOLEAN]

\* No random part: os.path.join(self.temp_dir, f"{repo.name}_clone") and
\* f"{repo.name}.bundle" / f"{repo.name}.tar.gz".
S3RepoPath(r) == S3TempDir \o "/" \o r.name \o "_clone"

S3BundlePath(r) == S3TempDir \o "/" \o r.name \o ".bundle"

S3ArchivePath(r) == S3TempDir \o "/" \o r.name \o ".tar.gz"

S3Key(r, fp) ==
    S3Prefix \o "/" \o r.platform \o "/" \o r.owner \o "/" \o r.name \o "_" \o fp
        \o ".bundle"

\* str(bool)
str(b) == IF b THEN "True" ELSE "False"

\* `x or default`: None and the empty string are falsy.
Or(x, default) == IF x = None \/ x = "" THEN default ELSE x

\* An upload that leaves out the encryption argument.
ExtraArgsWithoutEncryption(r) ==
    [Metadata |-> [platform |-> r.platform, owner |-> r.owner,
                   is_private |-> str(r.is_private),
                   default_branch |-> Or(r.default_branch, "unknown")]]

\* ExtraArgs of upload_file in _direct_upload and _archive_upload.
ExtraArgs(r) ==
    [ServerSideEncryption |-> "AES256",
     Metadata |-> [platform |-> r.platform, owner |-> r.owner,
                   is_private |-> str(r.is_private),
                   default_branch |-> Or(r.default_branch, "unknown")]]

\* upload_file(file, bucket, key, ExtraArgs=extra): the object replaces what
\* the bucket stored under the key.
PutObject(objects, key, extra) ==
    {o \in objects : o.path # key} \cup {[path |-> key, whole |-> TRUE, extra |-> extra]}

\* The `except Exception` clause of _direct_upload / _archive_upload: it logs and
\* returns False, and removes nothing.
S3Except(s) == Return(s, "False", "Failed", "exception")

\* `if os.path.exists(repo_path): shutil.rmtree(repo_path)` followed by
\* `if os.path.exists(bundle_path): os.remove(bundle_path)` and `return True`;
\* shutil.rmtree raising OSError ends in the except clause.
S3Rmtree(s) == IF s.t.repo_path \in s.ws THEN Did(s, "cleanup") ELSE s

S3CleanupReturn(s0, e, outcome) ==
    LET s == S3Rmtree(s0)
    IN  IF s.t.repo_path \in s.ws /\ ~e.rmtree_ok
        THEN S3Except(Bad(s, "rm"))
        ELSE Return([s EXCEPT !.ws = @ \ {s.t.repo_path},
                              !.t.rm_count = IF s.t.repo_path \in s.ws THEN @ + 1 ELSE @,
                              !.tmp_files = @ \ {s.t.tmp_path}],
                    "True", outcome, "none")

\* `git clone --mirror <url> <name>_clone` with cwd = temp_dir: git refuses a
\* destination that exists and is not empty.
S3Clone(s, r, e) ==
    IF ~At(s, "s3", "clone") THEN s
    ELSE LET s1 == [Did(s, "clone") EXCEPT
                             !.t.repo_path = S3RepoPath(r),
                             !.t.clones = @ + 1,
                             !.t.tmp_path = IF cfg.method = "direct"
                                            THEN S3BundlePath(r)
                                            ELSE S3ArchivePath(r)]
         IN  IF e.clone_ok /\ S3RepoPath(r) \notin s.ws
             THEN [s1 EXCEPT !.t.pc = IF cfg.method = "direct" THEN "lfs" ELSE "seal",
                             !.t.snap = mirror[r.clone_url],
                             !.ws = @ \cup {S3RepoPath(r)}]
             ELSE Return(IF e.clone_ok THEN s1 ELSE Bad(s1, "clone"),
                         "False", "Failed", "clone")

\* `git lfs ls-files` lists something only when git-lfs is installed and the
\* repository tracks LFS files; a failed fetch is a warning.
S3Lfs(s0, r, e) ==
    IF ~At(s0, "s3", "lfs") THEN s0
    ELSE LET s == Did(s0, "lfs")
         IN  IF git_lfs /\ ShowsLfsFilter(s.t.snap)
             THEN IF e.fetch_ok
                  THEN [Did(s, "lfs_fetch") EXCEPT !.t.pc = "pathcheck",
                                                   !.t.has_lfs = TRUE]
                  ELSE [Bad(Did(s, "lfs_fetch"), "fetch") EXCEPT !.t.pc = "pathcheck"]
             ELSE [s EXCEPT !.t.pc = "pathcheck"]

\* `if not os.path.exists(repo_path): return False`
S3PathCheck(s, r, e) ==
    IF ~At(s, "s3", "pathcheck") THEN s
    ELSE IF s.t.repo_path \notin s.ws
         THEN Return(s, "False", "Failed", "clone_missing")
         ELSE [s EXCEPT !.t.pc = "log"]

\* The fingerprint, with --all; the empty-repository cleanup is a bare rmtree.
S3Fingerprint(s0, r, e) ==
    IF ~At(s0, "s3", "log") THEN s0
    ELSE LET s == Did(s0, "fingerprint")
             last_commit_result == GitLog(s.t.snap, TRUE)
             check_empty == RevListAll(s.t.snap)
         IN  IF last_commit_result.rc # 0
             THEN IF check_empty.rc # 0 \/ check_empty.stdout = ""
                  THEN IF s.t.repo_path \in s.ws /\ ~e.rmtree_ok
                       THEN S3Except(Bad(S3Rmtree(s), "rm"))
                       ELSE Return([S3Rmtree(s) EXCEPT !.ws = @ \ {s.t.repo_path},
                                             !.t.rm_count = IF s.t.repo_path \in s.ws
                                                            THEN @ + 1 ELSE @],
                                   "True", "Skipped-Empty", "none")
                  ELSE Return(s, "False", "Failed", "log")
             ELSE [s EXCEPT !.t.pc = "exists",
                            !.t.fp = IF last_commit_result.stdout = ""
                                     THEN strftime(clock)
                                     ELSE last_commit_result.stdout]

\* head_object: found -> Skipped-Exists; ClientError (not found, or any other
\* client error) and every other exception -> go on to the bundle.
S3ExistsCheck(s0, r, e) ==
    IF ~At(s0, "s3", "exists") THEN s0
    ELSE LET s == Touch(Did(s0, "exists"), S3Key(r, s0.t.fp))
         IN  IF e.head # "ok"
             THEN [Bad(s, "head") EXCEPT !.t.pc = "seal"]
             ELSE IF Exists(s.s3_objects, S3Key(r, s.t.fp))
                  THEN S3CleanupReturn([s EXCEPT !.t.found = TRUE], e, "Skipped-Exists")
                  ELSE [s EXCEPT !.t.pc = "seal"]

\* `git --git-dir <repo_path> bundle create <bundle_path> --all`
S3Bundle(s0, r, e) ==
    IF ~(At(s0, "s3", "seal") /\ cfg.method = "direct") THEN s0
    ELSE LET s == Did(s0, "seal")
         IN  IF RefusesEmptyBundle(s.t.snap)
             THEN IF s.t.repo_path \in s.ws /\ ~e.rmtree_ok
                  THEN S3Except(Bad(S3Rmtree(s), "rm"))
                  ELSE Return([S3Rmtree(s) EXCEPT !.ws = @ \ {s.t.repo_path},
                                        !.t.rm_count = IF s.t.repo_path \in s.ws
                                                       THEN @ + 1 ELSE @],
                              "True", "Skipped-Empty", "none")
             ELSE IF ~e.seal_ok
                  THEN Return(Bad(s, "seal"), "False", "Failed", "bundle")
                  ELSE [s EXCEPT !.t.pc = "upload",
                                 !.tmp_files = @ \cup {s.t.tmp_path}]

\* upload_file, then the verifying head_object whose failure is only logged.
S3Upload(s0, r, e) ==
    IF ~At(s0, "s3", "upload") THEN s0
    ELSE LET s == Touch(Did(s0, "write"), S3Key(r, s0.t.fp))
         IN  IF ~e.upload_ok
             THEN S3Except(Bad(s, "upload"))
             ELSE [(IF e.verify_ok THEN s ELSE Bad(s, "verify")) EXCEPT
                        !.t.pc = "cleanup",
                        !.t.wrote = @ \cup {S3Key(r, s.t.fp)},
                        !.t.verified = e.verify_ok,
                        !.s3_objects = PutObject(@, S3Key(r, s.t.fp), ExtraArgs(r))]

S3Finish(s, r, e) ==
    IF ~At(s, "s3", "cleanup") THEN s
    ELSE S3CleanupReturn(s, e, "Success")

\* _archive_upload: the archive is written to the temp root, and the next
\* statement reads s3_key_base, a name that is bound nowhere: NameError, caught
\* by the except clause.  The upload below it is never reached.
S3ArchiveTar(s0, r, e) ==
    IF ~(At(s0, "s3", "seal") /\ cfg.method = "archive") THEN s0
    ELSE LET s == Did(s0, "seal")
         IN
         CASE e.tar = "open_fails" -> S3Except(Bad(s, "tar"))
           [] e.tar = "write_fails" ->
                 S3Except([Bad(s, "tar") EXCEPT !.tmp_files = @ \cup {s.t.tmp_path}])
           [] OTHER -> S3Except([s EXCEPT !.tmp_files = @ \cup {s.t.tmp_path}])

\* _find_local_backup: the entries of <local_backup_path>/<platform>/<owner>
\* that Path.glob(f"{repo.name}_*.bundle") yields, and of them the last in the
\* order of sorted(), or None.
DirEntries(files, dir) ==
    {From(f.path, Len(dir) + 2) :
        f \in {g \in files : /\ startswith(g.path, dir \o "/")
                              /\ ~Contains(From(g.path, Len(dir) + 2), "/")}}

find_local_backup(r, files) ==
    LET search_path == PlatformDir(r)
        bundle_files == {n \in DirEntries(files, search_path) :
                            fnmatch(n, r.name \o "_*.bundle")}
    IN  IF bundle_files = {} THEN None
        ELSE search_path \o "/" \o
                 (CHOOSE n \in bundle_files :
                      \A m \in bundle_files : m = n \/ StrLess(m, n))

\* _upload_existing_bundle names the object by datetime.now().
ExistingBundleKey(r, now) ==
    S3Prefix \o "/" \o r.platform \o "/" \o r.owner \o "/" \o r.name \o "_"
        \o strftime(now) \o ".bundle"

ExtraArgsOfExisting(r) ==
    [ServerSideEncryption |-> "AES256",
     Metadata |-> [platform |-> r.platform, owner |-> r.owner,
                   is_private |-> str(r.is_private),
                   default_branch |-> Or(r.default_branch, "unknown"),
                   source |-> "local_backup_optimization"]]

\* upload_repository with a local_backup_path: a local bundle that is found is
\* uploaded as it is, and nothing is cloned; else the regular method runs.
\* fp keeps the stamp of the key.
S3Smart(s0, r, e) ==
    IF ~At(s0, "s3", "smart") THEN s0
    ELSE LET local_bundle == find_local_backup(r, s0.local_files)
             s3_key == ExistingBundleKey(r, clock)
             s == [Touch(Touch(Did(s0, "write"), local_bundle), s3_key) EXCEPT
                       !.t.fp = strftime(clock)]
         IN  IF local_bundle = None
             THEN [s0 EXCEPT !.t.pc = "clone"]
             ELSE IF ~e.upload_ok
                  THEN Return(Bad(s, "upload"), "False", "Failed", "exception")
                  ELSE Return([s EXCEPT !.t.wrote = @ \cup {s3_key},
                                        !.s3_objects =
                                            PutObject(@, s3_key, ExtraArgsOfExisting(r))],
                              "True", "Success", "none")

\* Everything after the clone, in the order of the source.
S3Rest(s, r, e) ==
    Only({S3Finish(s7, r, e) : s7 \in
         {S3Upload(s6, r, e) : s6 \in
         {S3ArchiveTar(s5, r, e) : s5 \in
         {S3Bundle(s4, r, e) : s4 \in
         {S3ExistsCheck(s3, r, e) : s3 \in
         {S3Fingerprint(s2, r, e) : s2 \in
         {S3PathCheck(s1, r, e) : s1 \in
         {S3Lfs(s, r, e)}}}}}}}})


(***************************************************************************)
(* The environment's answers to the external calls of one backend call.    *)
(***************************************************************************)
\* The environments that differ from the faultless one in the answers `calls`.
OkLocalEnv ==
    [clone_ok |-> TRUE, fetch_ok |-> TRUE, seal_ok |-> TRUE, lfs_dir |-> TRUE,
     tar |-> "ok", rm_fails |-> 0]

LocalEnvOf(calls) ==
    {e \in LocalEnv : \A f \in DOMAIN e \ calls : e[f] = OkLocalEnv[f]}

OkS3Env ==
    [clone_ok |-> TRUE, fetch_ok |-> TRUE, seal_ok |-> TRUE, tar |-> "ok",
     head |-> "ok", upload_ok |-> TRUE, verify_ok |-> TRUE, rmtree_ok |-> TRUE]

S3EnvOf(calls) ==
    {e \in S3Env : \A f \in DOMAIN e \ calls : e[f] = OkS3Env[f]}

\* The environments in which at most n external calls fail.
LocalEnvWithin(n) ==
    {e \in LocalEnv :
        Cardinality({f \in DOMAIN e \ {"lfs_dir"} : e[f] # OkLocalEnv[f]}) <= n}

S3EnvWithin(n) ==
    {e \in S3Env : Cardinality({f \in DOMAIN e : e[f] # OkS3Env[f]}) <= n}

\* The external calls a backend makes after its clone, by seal method.
LocalRestCalls ==
    IF cfg.method = "direct"
    THEN {"fetch_ok", "seal_ok", "lfs_dir", "tar", "rm_fails"}
    ELSE {"fetch_ok", "tar", "rm_fails"}

S3RestCalls ==
    IF cfg.method = "direct"
    THEN {"fetch_ok", "head", "seal_ok", "upload_ok", "verify_ok", "rmtree_ok"}
    ELSE {"tar"}


(***************************************************************************)
(* RepoBackupOrchestrator.backup_repository: the local backend first, the  *)
(* object store second, True when any of the two returned True.            *)
(***************************************************************************)
cfgVars == <<cfg, repos, git_lfs>>
envVars == <<mirror, clock>>
fsVars == <<ws, tmp_files, local_files, s3_objects>>
schedVars == <<phase, successful, failed, exit_status>>

Indices == 1..Len(repos)

\* A backend call that has returned hands its value to backup_repository, which
\* goes on to the next destination or to its report.  out_local and out_s3 keep
\* the line the backend logged (Success, the two skips, Failed); of the call's
\* locals only the paths it used are kept, until the task reports.
BrAfterBackend(s) ==
    IF s.t.pc # "ret" THEN s
    ELSE LET kept == [NoTask EXCEPT !.repo_path = s.t.repo_path,
                                    !.tmp_path = s.t.tmp_path,
                                    !.clones = s.t.clones,
                                    !.dest = s.t.dest,
                                    !.result_local = s.t.result_local,
                                    !.out_local = s.t.out_local]
         IN  IF s.t.be = "local"
             THEN [s EXCEPT !.t = [kept EXCEPT
                     !.result_local = s.t.ret, !.out_local = s.t.outcome,
                     !.pc = IF cfg.s3_uploader THEN "br_s3" ELSE "br_end"]]
             ELSE [s EXCEPT !.t = [kept EXCEPT
                     !.result_s3 = s.t.ret, !.out_s3 = s.t.outcome,
                     !.pc = "br_end"]]

\* The locals of a backend call do not outlive it.
Fresh(t) ==
    [NoTask EXCEPT !.pc = t.pc, !.result = t.result,
                   !.clones = t.clones, !.dest = t.dest,
                   !.result_local = t.result_local, !.result_s3 = t.result_s3,
                   !.out_local = t.out_local, !.out_s3 = t.out_s3]

\* A report that asks every destination to have succeeded.
AllResults(t) ==
    IF t.result_local # "False" /\ t.result_s3 # "False" THEN "True" ELSE "False"

\* `return any(results)`
AnyResult(t) ==
    IF t.result_local = "True" \/ t.result_s3 = "True" THEN "True" ELSE "False"

\* A worker (or the sequential loop) enters backup_repository(repos[i]).  The
\* pool hands out the futures in submission order to at most max_workers
\* threads; the sequential loop starts repos[i] after it has counted repos[i-1].
InFlight(i) == tasks[i].pc \notin {"pending", "done", "collected"}

\* A pool as large as the list.
max_workers_of_list == Len(repos)

\* `max_workers = max_workers or int(os.getenv("PARALLEL_WORKERS", 5))`: a
\* worker count of 0 stands for None, and the variable is not set.
max_workers == IF cfg.max_workers = 0 THEN PARALLEL_WORKERS ELSE cfg.max_workers

\* A backup_repository that takes the object store for configured whenever
\* the local backend is not.
BrEntryWithoutCheck == IF cfg.local_backup THEN "br_local" ELSE "br_s3"

\* Where backup_repository goes first: `if self.local_backup`, else
\* `if self.s3_uploader`, else the `return False` of no destination, which is
\* the value of any(results) for the empty list.
BrEntry ==
    IF cfg.local_backup THEN "br_local"
    ELSE IF cfg.s3_uploader THEN "br_s3" ELSE "br_end"

StartTask(i) ==
    /\ phase = "running"
    /\ tasks[i].pc = "pending"
    /\ \A j \in 1..(i - 1) : tasks[j].pc # "pending"
    /\ IF cfg.parallel
       THEN Cardinality({j \in Indices : InFlight(j)}) < max_workers
       ELSE \A j \in 1..(i - 1) : tasks[j].pc = "collected"
    /\ tasks' = [tasks EXCEPT ![i].pc = BrEntry]
    /\ UNCHANGED <<cfgVars, envVars, fsVars, schedVars, epoch, hist, faults, sel, rm>>

\* self.local_backup.backup_repository(repo) up to the end of the clone.
TaskLocalClone(i) ==
    /\ tasks[i].pc = "br_local"
    /\ \E e \in LocalEnvOf({"clone_ok"}) :
          \E s1 \in {LocalClone([Pack(i) EXCEPT !.t.be = "local", !.t.pc = "clone"],
                                repos[i], i, e)} :
              /\ faults + Cardinality(s1.t.bad) <= MaxFaults
              /\ faults' = faults + Cardinality(s1.t.bad)
              /\ Store(i, BrAfterBackend(s1))
    /\ UNCHANGED <<cfgVars, envVars, schedVars, epoch, hist, sel, rm>>

\* The remainder of the local backend call.
TaskLocalRest(i) ==
    /\ tasks[i].be = "local"
    /\ tasks[i].pc \in {"log", "exists", "lfs", "seal", "sidecar", "cleanup"}
    /\ \E e \in LocalEnvOf(LocalRestCalls) \cap LocalEnvWithin(MaxFaults - faults) :
          \E s1 \in {LocalRest(Pack(i), repos[i], e)} :
              /\ faults + Cardinality(s1.t.bad) <= MaxFaults
              /\ faults' = faults + Cardinality(s1.t.bad)
              /\ Store(i, BrAfterBackend(s1))
    /\ UNCHANGED <<cfgVars, envVars, schedVars, epoch, hist, sel, rm>>

\* self.s3_uploader.upload_repository(repo, method=method) up to the end of the
\* clone; backup_repository passes no local_backup_path.
TaskS3Clone(i) ==
    /\ tasks[i].pc = "br_s3"
    /\ \E e \in S3EnvOf({"clone_ok"}) :
          \E s1 \in {S3Clone([Pack(i) EXCEPT !.t = [Fresh(tasks[i]) EXCEPT
                                                     !.be = "s3", !.pc = "clone"]],
                             repos[i], e)} :
              /\ faults + Cardinality(s1.t.bad) <= MaxFaults
              /\ faults' = faults + Cardinality(s1.t.bad)
              /\ Store(i, BrAfterBackend(s1))
    /\ UNCHANGED <<cfgVars, envVars, schedVars, epoch, hist, sel, rm>>

TaskS3Rest(i) ==
    /\ tasks[i].be = "s3"
    /\ tasks[i].pc \in {"lfs", "pathcheck", "log", "exists", "seal", "upload", "cleanup"}
    /\ \E e \in S3EnvOf(S3RestCalls) \cap S3EnvWithin(MaxFaults - faults) :
          \E s1 \in {S3Rest(Pack(i), repos[i], e)} :
              /\ faults + Cardinality(s1.t.bad) <= MaxFaults
              /\ faults' = faults + Cardinality(s1.t.bad)
              /\ Store(i, BrAfterBackend(s1))
    /\ UNCHANGED <<cfgVars, envVars, schedVars, epoch, hist, sel, rm>>

\* The report and `return any(results)`: the future is done.
TaskReturn(i) ==
    /\ tasks[i].pc = "br_end"
    /\ tasks' = [tasks EXCEPT ![i] = [NoTask EXCEPT
                                          !.pc = "done",
                                          !.result = AnyResult(tasks[i])]]
    /\ UNCHANGED <<cfgVars, envVars, fsVars, schedVars, epoch, hist, faults, sel, rm>>

\* A backup_repository without its except clause: the exception ends the
\* worker, and the task never reports.
TaskExceptEscapes(i) ==
    /\ tasks[i].pc \in {"br_local", "br_s3", "br_end"}
    /\ faults < MaxFaults
    /\ faults' = faults + 1
    /\ tasks' = [tasks EXCEPT ![i] = [NoTask EXCEPT !.pc = "raised"]]
    /\ UNCHANGED <<cfgVars, envVars, fsVars, schedVars, epoch, hist, sel, rm>>

\* An exception inside the try block of backup_repository (between the backend
\* calls): the except clause logs it and returns False.
TaskExcept(i) ==
    /\ tasks[i].pc \in {"br_local", "br_s3", "br_end"}
    /\ faults < MaxFaults
    /\ faults' = faults + 1
    /\ tasks' = [tasks EXCEPT ![i] = [NoTask EXCEPT
                                          !.pc = "done", !.result = "False"]]
    /\ UNCHANGED <<cfgVars, envVars, fsVars, schedVars, epoch, hist, sel, rm>>

(***************************************************************************)
(* RepoBackupOrchestrator.run_backup.                                      *)
(***************************************************************************)
\* A run_backup that goes on with an empty list.
RunBackupBeginWithoutEmptyCheck ==
    /\ phase = "start"
    /\ IF ~cfg.s3_uploader /\ ~cfg.local_backup
       THEN /\ phase' = "returned"
            /\ exit_status' = "0"
       ELSE /\ phase' = "running"
            /\ exit_status' = exit_status
    /\ successful' = 0
    /\ failed' = 0
    /\ UNCHANGED <<cfgVars, envVars, fsVars, tasks, epoch, hist, faults, sel, rm>>

\* The early returns, then the counters are set to 0 and the tasks submitted.
RunBackupBegin ==
    /\ phase = "start"
    /\ IF (~cfg.s3_uploader /\ ~cfg.local_backup) \/ Len(repos) = 0
       THEN /\ phase' = "returned"
            /\ exit_status' = "0"
       ELSE /\ phase' = "running"
            /\ exit_status' = exit_status
    /\ successful' = 0
    /\ failed' = 0
    /\ UNCHANGED <<cfgVars, envVars, fsVars, tasks, epoch, hist, faults, sel, rm>>

\* A loop that counts the successes only.
CountResultDropsFailure(ok, fail, result) ==
    IF result = "True" THEN <<ok + 1, fail>> ELSE <<ok, fail>>

\* One iteration of `for future in as_completed(futures)` (or of the
\* sequential loop): the result is counted once.
CountResult(ok, fail, result) ==
    IF result = "True" THEN <<ok + 1, fail>> ELSE <<ok, fail + 1>>

Collect(i) ==
    /\ phase = "running"
    /\ tasks[i].pc = "done"
    /\ LET c == CountResult(successful, failed, tasks[i].result)
       IN  /\ successful' = c[1]
           /\ failed' = c[2]
    /\ tasks' = [tasks EXCEPT ![i].pc = "collected"]
    /\ UNCHANGED <<cfgVars, envVars, fsVars, phase, exit_status, epoch, hist, faults, sel, rm>>

\* cleanup_temp of the object-store uploader if there is one, else of the local
\* backend: a bare shutil.rmtree(self.temp_dir), whose OSError nothing catches.
CleanupRoot == IF cfg.s3_uploader THEN S3TempDir ELSE LocalTempDir

Under(root, path) == Len(path) > Len(root) /\ SubSeq(path, 1, Len(root)) = root

\* A cleanup that waits for the tasks to be started, not to be finished.
EndOfRunCleanupWithoutJoin ==
    /\ phase = "running"
    /\ \A i \in Indices : tasks[i].pc # "pending"
    /\ \/ /\ ws' = {d \in ws : ~Under(CleanupRoot, d)}
          /\ tmp_files' = {f \in tmp_files : ~Under(CleanupRoot, f)}
          /\ phase' = "summary"
          /\ UNCHANGED <<exit_status, faults>>
       \/ /\ faults < MaxFaults
          /\ faults' = faults + 1
          /\ UNCHANGED <<ws, tmp_files>>
          /\ phase' = "crashed"
          /\ exit_status' = "1"
    /\ UNCHANGED <<cfgVars, envVars, local_files, s3_objects, tasks, successful,
                   failed, epoch, hist, sel, rm>>

\* The `with ThreadPoolExecutor` block and the as_completed loop (or the
\* sequential loop) are over when every task was collected; cleanup_temp is
\* the statement after them.
EndOfRunCleanup ==
    /\ phase = "running"
    /\ \A i \in Indices : tasks[i].pc = "collected"
    /\ \/ /\ ws' = {d \in ws : ~Under(CleanupRoot, d)}
          /\ tmp_files' = {f \in tmp_files : ~Under(CleanupRoot, f)}
          /\ phase' = "summary"
          /\ UNCHANGED <<exit_status, faults>>
       \/ /\ faults < MaxFaults
          /\ faults' = faults + 1
          /\ UNCHANGED <<ws, tmp_files>>
          /\ phase' = "crashed"
          /\ exit_status' = "1"
    /\ UNCHANGED <<cfgVars, envVars, local_files, s3_objects, tasks, successful,
                   failed, epoch, hist, sel, rm>>

\* The summary and `if failed > 0: sys.exit(1)`.
ExitStatus(n_failed) == IF n_failed > 0 THEN "1" ELSE "0"

Summary ==
    /\ phase = "summary"
    /\ phase' = "returned"
    /\ exit_status' = ExitStatus(failed)
    /\ UNCHANGED <<cfgVars, envVars, fsVars, tasks, successful, failed, epoch, hist, faults, sel, rm>>


(***************************************************************************)
(* Spec: one run of run_backup.                                            *)
(***************************************************************************)
\* The hosted repositories of a run: acme/app has commits, other/app has commits
\* and tracks LFS files, acme/lib has no commit.
RunWorld ==
    [u \in Urls |->
        CASE u = "u1" -> [head |-> 1, all |-> 1, lfs |-> FALSE]
          [] u = "u2" -> [head |-> 1, all |-> 1, lfs |-> TRUE]
          [] OTHER -> [head |-> 0, all |-> 0, lfs |-> FALSE]]

Configs ==
    {c \in [local_backup : BOOLEAN, s3_uploader : BOOLEAN,
            method : {"direct", "archive"}, parallel : BOOLEAN,
            max_workers : 1..MaxWorkers] :
        c.parallel \/ c.max_workers = 1}

Init ==
    /\ cfg \in Configs
    /\ \E n \in 0..MaxRepos : repos = SubSeq(Catalog \o Catalog, 1, n)
    /\ git_lfs \in BOOLEAN
    /\ mirror = RunWorld
    /\ clock = 1
    /\ tasks = [i \in 1..Len(repos) |-> NoTask]
    /\ ws = {}
    /\ tmp_files = {}
    /\ local_files = {}
    /\ s3_objects = {}
    /\ phase = "start"
    /\ successful = 0
    /\ failed = 0
    /\ exit_status = "running"
    /\ epoch = 1
    /\ hist = <<>>
    /\ faults = 0
    /\ sel = <<>>
    /\ rm = <<>>

Worker(i) ==
    \/ TaskLocalClone(i)
    \/ TaskLocalRest(i)
    \/ TaskS3Clone(i)
    \/ TaskS3Rest(i)
    \/ TaskReturn(i)
    \/ TaskExcept(i)

MainThread ==
    \/ RunBackupBegin
    \/ \E i \in Indices : StartTask(i)
    \/ \E i \in Indices : Collect(i)
    \/ EndOfRunCleanup
    \/ Summary

Next ==
    \/ RunBackupBegin
    \/ \E i \in Indices : StartTask(i)
    \/ \E i \in Indices : TaskLocalClone(i)
    \/ \E i \in Indices : TaskLocalRest(i)
    \/ \E i \in Indices : TaskS3Clone(i)
    \/ \E i \in Indices : TaskS3Rest(i)
    \/ \E i \in Indices : TaskReturn(i)
    \/ \E i \in Indices : TaskExcept(i)
    \/ \E i \in Indices : Collect(i)
    \/ EndOfRunCleanup
    \/ Summary

Spec == Init /\ [][Next]_vars

\* The interpreter keeps scheduling every thread that can run.
FairSpec ==
    /\ Spec
    /\ WF_vars(MainThread)
    /\ \A i \in 1..(MaxRepos + 1) : WF_vars(i \in Indices /\ Worker(i))

(***************************************************************************)
(* SpecPool: the parallel runs of run_backup with one destination, with a  *)
(* worker count or without one.  FairSpecPool asks of the scheduling     *)
(* only that the pool hands a waiting task to an idle worker: a task that  *)
(* has started may stay where it is for ever.                              *)
(***************************************************************************)
InitPool ==
    /\ cfg \in {c \in [local_backup : BOOLEAN, s3_uploader : BOOLEAN,
                         method : {"direct"}, parallel : {TRUE},
                         max_workers : 0..MaxWorkers] :
                    c.local_backup # c.s3_uploader}
    /\ \E n \in 0..MaxRepos : repos = SubSeq(Catalog \o Catalog, 1, n)
    /\ git_lfs = TRUE
    /\ mirror = RunWorld
    /\ clock = 1
    /\ tasks = [i \in 1..Len(repos) |-> NoTask]
    /\ ws = {}
    /\ tmp_files = {}
    /\ local_files = {}
    /\ s3_objects = {}
    /\ phase = "start"
    /\ successful = 0
    /\ failed = 0
    /\ exit_status = "running"
    /\ epoch = 1
    /\ hist = <<>>
    /\ faults = 0
    /\ sel = <<>>
    /\ rm = <<>>

SpecPool == InitPool /\ [][Next]_vars

FairSpecPool == SpecPool /\ WF_vars(\E i \in Indices : StartTask(i))

(***************************************************************************)
(* SpecRestart: a run of run_backup that follows a run which crashed, or   *)
(* was killed, while it held clone workspaces.  Nothing between the start  *)
(* of the process and run_backup touches the temp roots:                   *)
(* LocalBackup.cleanup_stale_temps has no caller.                          *)
(***************************************************************************)
\* What the earlier run left: the object-store workspace of acme/app, and a
\* local workspace of acme/app under the identifier that run had drawn.
StaleDirs ==
    {S3RepoPath(Catalog[1]), LocalTempDir \o "/app_0badc0de_clone"}

InitRestart ==
    /\ cfg \in Configs
    /\ \E n \in 0..MaxRepos : repos = SubSeq(Catalog \o Catalog, 1, n)
    /\ git_lfs \in BOOLEAN
    /\ mirror = RunWorld
    /\ clock = 1
    /\ tasks = [i \in 1..Len(repos) |-> NoTask]
    /\ ws \in SUBSET StaleDirs /\ ws # {}
    /\ tmp_files = {}
    /\ local_files = {}
    /\ s3_objects = {}
    /\ phase = "start"
    /\ successful = 0
    /\ failed = 0
    /\ exit_status = "running"
    /\ epoch = 1
    /\ hist = <<>>
    /\ faults = 0
    /\ sel = <<>>
    /\ rm = <<>>

SpecRestart == InitRestart /\ [][Next]_vars

(***************************************************************************)
(* SpecTask: one backend backs up acme/app again and again; commits reach  *)
(* the hosted repository between the calls.  Every step of the backend is  *)
(* an action, and every answer of the environment is possible.             *)
(***************************************************************************)
TaskRepo == Catalog[1]

Idle == tasks[1].pc = "pending"

taskVars == <<cfgVars, schedVars, faults, sel, rm>>

\* LocalBackup.backup_repository(repo) / S3Uploader.upload_repository(repo)
\* is entered.
Invoke ==
    /\ Idle
    /\ epoch <= MaxCalls
    /\ tasks' = [tasks EXCEPT ![1] = [NoTask EXCEPT
                    !.be = IF cfg.local_backup THEN "local" ELSE "s3",
                    !.pc = "clone"]]
    /\ UNCHANGED <<taskVars, envVars, fsVars, epoch, hist>>

StepLocalClone ==
    /\ At(Pack(1), "local", "clone")
    /\ \E e \in LocalEnvOf({"clone_ok"}) :
          Store(1, LocalClone(Pack(1), TaskRepo, 1, e))
    /\ UNCHANGED <<taskVars, envVars, epoch, hist>>

StepLocalFingerprint ==
    /\ At(Pack(1), "local", "log")
    /\ \E e \in LocalEnvOf({"rm_fails"}) :
          Store(1, LocalFingerprint(Pack(1), TaskRepo, e))
    /\ UNCHANGED <<taskVars, envVars, epoch, hist>>

StepLocalExistsCheck ==
    /\ At(Pack(1), "local", "exists")
    /\ \E e \in LocalEnvOf({"rm_fails"}) :
          Store(1, LocalExistsCheck(Pack(1), TaskRepo, e))
    /\ UNCHANGED <<taskVars, envVars, epoch, hist>>

StepLocalLfs ==
    /\ At(Pack(1), "local", "lfs")
    /\ \E e \in LocalEnvOf({"fetch_ok", "rm_fails"}) :
          Store(1, LocalLfs(Pack(1), TaskRepo, e))
    /\ UNCHANGED <<taskVars, envVars, epoch, hist>>

StepDirectBundle ==
    /\ At(Pack(1), "local", "seal") /\ cfg.method = "direct"
    /\ \E e \in LocalEnvOf({"seal_ok", "rm_fails"}) :
          Store(1, DirectBundle(Pack(1), TaskRepo, e))
    /\ UNCHANGED <<taskVars, envVars, epoch, hist>>

StepDirectSidecar ==
    /\ At(Pack(1), "local", "sidecar")
    /\ \E e \in LocalEnvOf({"lfs_dir", "tar", "rm_fails"}) :
          Store(1, DirectSidecar(Pack(1), TaskRepo, e))
    /\ UNCHANGED <<taskVars, envVars, epoch, hist>>

StepArchiveTar ==
    /\ At(Pack(1), "local", "seal") /\ cfg.method = "archive"
    /\ \E e \in LocalEnvOf({"tar", "rm_fails"}) :
          Store(1, ArchiveTar(Pack(1), TaskRepo, e))
    /\ UNCHANGED <<taskVars, envVars, epoch, hist>>

StepLocalFinish ==
    /\ At(Pack(1), "local", "cleanup")
    /\ \E e \in LocalEnvOf({"rm_fails"}) :
          Store(1, LocalFinish(Pack(1), TaskRepo, e))
    /\ UNCHANGED <<taskVars, envVars, epoch, hist>>

StepS3Clone ==
    /\ At(Pack(1), "s3", "clone")
    /\ \E e \in S3EnvOf({"clone_ok"}) : Store(1, S3Clone(Pack(1), TaskRepo, e))
    /\ UNCHANGED <<taskVars, envVars, epoch, hist>>

StepS3Lfs ==
    /\ At(Pack(1), "s3", "lfs")
    /\ \E e \in S3EnvOf({"fetch_ok"}) : Store(1, S3Lfs(Pack(1), TaskRepo, e))
    /\ UNCHANGED <<taskVars, envVars, epoch, hist>>

StepS3PathCheck ==
    /\ At(Pack(1), "s3", "pathcheck")
    /\ Store(1, S3PathCheck(Pack(1), TaskRepo, OkS3Env))
    /\ UNCHANGED <<taskVars, envVars, epoch, hist>>

StepS3Fingerprint ==
    /\ At(Pack(1), "s3", "log")
    /\ \E e \in S3EnvOf({"rmtree_ok"}) :
          Store(1, S3Fingerprint(Pack(1), TaskRepo, e))
    /\ UNCHANGED <<taskVars, envVars, epoch, hist>>

StepS3ExistsCheck ==
    /\ At(Pack(1), "s3", "exists")
    /\ \E e \in S3EnvOf({"head", "rmtree_ok"}) :
          Store(1, S3ExistsCheck(Pack(1), TaskRepo, e))
    /\ UNCHANGED <<taskVars, envVars, epoch, hist>>

StepS3Bundle ==
    /\ At(Pack(1), "s3", "seal") /\ cfg.method = "direct"
    /\ \E e \in S3EnvOf({"seal_ok", "rmtree_ok"}) :
          Store(1, S3Bundle(Pack(1), TaskRepo, e))
    /\ UNCHANGED <<taskVars, envVars, epoch, hist>>

StepS3ArchiveTar ==
    /\ At(Pack(1), "s3", "seal") /\ cfg.method = "archive"
    /\ \E e \in S3EnvOf({"tar"}) : Store(1, S3ArchiveTar(Pack(1), TaskRepo, e))
    /\ UNCHANGED <<taskVars, envVars, epoch, hist>>

StepS3Upload ==
    /\ At(Pack(1), "s3", "upload")
    /\ \E e \in S3EnvOf({"upload_ok", "verify_ok"}) :
          Store(1, S3Upload(Pack(1), TaskRepo, e))
    /\ UNCHANGED <<taskVars, envVars, epoch, hist>>

StepS3Finish ==
    /\ At(Pack(1), "s3", "cleanup")
    /\ \E e \in S3EnvOf({"rmtree_ok"}) : Store(1, S3Finish(Pack(1), TaskRepo, e))
    /\ UNCHANGED <<taskVars, envVars, epoch, hist>>


\* The primary artifacts of the repository, at either destination.
IsPrimary(path) ==
    \E t \in 0..(MaxTime + 1) :
        path \in {BundlePath(TaskRepo, strftime(t)), ArchivePath(TaskRepo, strftime(t)),
                  S3Key(TaskRepo, strftime(t))}

Primaries == {f \in local_files \cup s3_objects : IsPrimary(f.path)}

\* The backend call returns; hist keeps what it returned, what it logged and
\* what it left behind.
FinishCall ==
    /\ tasks[1].pc = "ret"
    /\ hist' = Append(hist,
          [ret |-> tasks[1].ret, outcome |-> tasks[1].outcome, msg |-> tasks[1].msg,
           fp |-> tasks[1].fp, remote |-> mirror[TaskRepo.clone_url],
           cloned |-> tasks[1].msg # "clone", has_lfs |-> tasks[1].has_lfs,
           wrote |-> tasks[1].wrote, rm_count |-> tasks[1].rm_count,
           bad |-> tasks[1].bad,
           be |-> tasks[1].be, steps |-> tasks[1].steps, found |-> tasks[1].found,
           clones |-> tasks[1].clones,
           stored |-> {f.path : f \in local_files \cup s3_objects},
           left |-> tasks[1].repo_path \in ws,
           primaries |-> Cardinality(Primaries),
           artifact |-> /\ tasks[1].fp # ""
                        /\ \/ Exists(local_files, LocalArtifactPath(TaskRepo, tasks[1].fp))
                           \/ Exists(s3_objects, S3Key(TaskRepo, tasks[1].fp)),
           sidecar |-> Exists(local_files, LfsArchivePath(TaskRepo, tasks[1].fp))])
    /\ tasks' = [tasks EXCEPT ![1] = NoTask]
    /\ epoch' = epoch + 1
    /\ UNCHANGED <<taskVars, envVars, fsVars>>

\* Between two calls the hosted repository gains a commit: on the branch HEAD
\* names, on another branch, or on HEAD's branch with a .gitattributes that
\* names the LFS filter.
CanPush == Idle /\ epoch <= MaxCalls /\ clock < MaxTime

PushHead ==
    /\ CanPush
    /\ clock' = clock + 1
    /\ mirror' = [mirror EXCEPT ![TaskRepo.clone_url] =
                     [@ EXCEPT !.head = clock + 1, !.all = clock + 1]]
    /\ UNCHANGED <<taskVars, fsVars, tasks, epoch, hist>>

PushBranch ==
    /\ CanPush
    /\ clock' = clock + 1
    /\ mirror' = [mirror EXCEPT ![TaskRepo.clone_url] = [@ EXCEPT !.all = clock + 1]]
    /\ UNCHANGED <<taskVars, fsVars, tasks, epoch, hist>>

PushLfs ==
    /\ CanPush
    /\ clock' = clock + 1
    /\ mirror' = [mirror EXCEPT ![TaskRepo.clone_url] =
                     [head |-> clock + 1, all |-> clock + 1, lfs |-> TRUE]]
    /\ UNCHANGED <<taskVars, fsVars, tasks, epoch, hist>>

InitTask ==
    /\ cfg \in {c \in Configs :
                  /\ c.local_backup # c.s3_uploader
                  /\ ~c.parallel}
    /\ repos = <<TaskRepo>>
    /\ git_lfs \in BOOLEAN
    /\ mirror = [u \in Urls |-> [head |-> 0, all |-> 0, lfs |-> FALSE]]
    /\ clock = 0
    /\ tasks = <<NoTask>>
    /\ ws = {}
    /\ tmp_files = {}
    /\ local_files = {}
    /\ s3_objects = {}
    /\ phase = "start"
    /\ successful = 0
    /\ failed = 0
    /\ exit_status = "running"
    /\ epoch = 1
    /\ hist = <<>>
    /\ faults = 0
    /\ sel = <<>>
    /\ rm = <<>>

NextTask ==
    \/ Invoke
    \/ StepLocalClone
    \/ StepLocalFingerprint
    \/ StepLocalExistsCheck
    \/ StepLocalLfs
    \/ StepDirectBundle
    \/ StepDirectSidecar
    \/ StepArchiveTar
    \/ StepLocalFinish
    \/ StepS3Clone
    \/ StepS3Lfs
    \/ StepS3PathCheck
    \/ StepS3Fingerprint
    \/ StepS3ExistsCheck
    \/ StepS3Bundle
    \/ StepS3ArchiveTar
    \/ StepS3Upload
    \/ StepS3Finish
    \/ FinishCall
    \/ PushHead
    \/ PushBranch
    \/ PushLfs

SpecTask == InitTask /\ [][NextTask]_vars

(***************************************************************************)
(* SpecUpload: S3Uploader.upload_repository(repo, method, local_backup_path) *)
(* is called again and again for acme/app, with and without a              *)
(* local_backup_path, while the wall clock advances.  The local backup     *)
(* root holds what earlier runs of the local backend have left.            *)
(***************************************************************************)
InvokeUpload ==
    /\ Idle
    /\ epoch <= MaxCalls
    /\ \E local_backup_path \in {None, "backup"} :
          tasks' = [tasks EXCEPT ![1] = [NoTask EXCEPT
                      !.be = "s3",
                      !.pc = IF local_backup_path = None THEN "clone" ELSE "smart"]]
    /\ UNCHANGED <<taskVars, envVars, fsVars, epoch, hist>>

StepS3Smart ==
    /\ At(Pack(1), "s3", "smart")
    /\ \E e \in S3EnvOf({"upload_ok"}) : Store(1, S3Smart(Pack(1), TaskRepo, e))
    /\ UNCHANGED <<taskVars, envVars, epoch, hist>>

\* A second passes between two calls.
Tick ==
    /\ Idle
    /\ epoch <= MaxCalls
    /\ clock < MaxTime
    /\ clock' = clock + 1
    /\ UNCHANGED <<taskVars, mirror, fsVars, tasks, epoch, hist>>

\* Bundles of earlier runs: two of acme/app, one of other/app, and one of
\* acme/app_web, a repository of the same owner.
EarlierBundles ==
    {File(BundlePath(TaskRepo, strftime(0)), TRUE),
     File(BundlePath(TaskRepo, strftime(1)), TRUE),
     File(BundlePath(Catalog[2], strftime(1)), TRUE),
     File(BundlePath([TaskRepo EXCEPT !.name = "app_web"], strftime(0)), TRUE)}

InitUpload ==
    /\ cfg \in {c \in Configs : c.s3_uploader /\ ~c.local_backup /\ ~c.parallel}
    /\ repos = <<TaskRepo>>
    /\ git_lfs = TRUE
    /\ mirror \in {RunWorld, [u \in Urls |-> [head |-> 0, all |-> 0, lfs |-> FALSE]]}
    /\ clock = 1
    /\ tasks = <<NoTask>>
    /\ ws = {}
    /\ tmp_files = {}
    /\ local_files \in SUBSET EarlierBundles
    /\ s3_objects = {}
    /\ phase = "start"
    /\ successful = 0
    /\ failed = 0
    /\ exit_status = "running"
    /\ epoch = 1
    /\ hist = <<>>
    /\ faults = 0
    /\ sel = <<>>
    /\ rm = <<>>

NextUpload ==
    \/ InvokeUpload
    \/ StepS3Smart
    \/ StepS3Clone
    \/ StepS3Lfs
    \/ StepS3PathCheck
    \/ StepS3Fingerprint
    \/ StepS3ExistsCheck
    \/ StepS3Bundle
    \/ StepS3ArchiveTar
    \/ StepS3Upload
    \/ StepS3Finish
    \/ FinishCall
    \/ Tick

SpecUpload == InitUpload /\ [][NextUpload]_vars


(***************************************************************************)
(* SpecResolve: RepoBackupOrchestrator.get_specific_repositories, one      *)
(* pattern of the list per step, over patterns and descriptors that are    *)
(* strings.                                                                *)
(***************************************************************************)
MaxPatterns == 2   \* length of the pattern list

\* re.search(regex, text, re.IGNORECASE) for regular expressions made of
\* literals, `.`, a postfix `*`, a leading `^` and a trailing `$`.  re_error
\* holds of the expressions re.compile rejects: nothing to repeat, an
\* unterminated character set, an unbalanced parenthesis.
re_error(regex) ==
    \/ startswith(regex, "*") \/ startswith(regex, "^*")
    \/ Contains(regex, "[") /\ ~Contains(regex, "]")
    \/ Contains(regex, "(") # Contains(regex, ")")

RECURSIVE re_match_here(_, _)
re_match_here(regex, text) ==
    IF regex = "" THEN TRUE
    ELSE IF Len(regex) >= 2 /\ Char(regex, 2) = "*"
    THEN \E k \in 0..Len(text) :
            /\ \A i \in 1..k : Char(regex, 1) = "." \/ Char(regex, 1) = Char(text, i)
            /\ re_match_here(From(regex, 3), From(text, k + 1))
    ELSE IF regex = "$" THEN text = ""
    ELSE /\ text # ""
         /\ Char(regex, 1) = "." \/ Char(regex, 1) = Char(text, 1)
         /\ re_match_here(Tail(regex), Tail(text))

re_search(regex, text) ==
    LET p == lower(regex)
        t == lower(text)
    IN  IF startswith(p, "^")
        THEN re_match_here(Tail(p), t)
        ELSE \E k \in 1..(Len(t) + 1) : re_match_here(p, From(t, k))

IsGlob(pattern) ==
    Contains(pattern, "*") \/ Contains(pattern, "?") \/ Contains(pattern, "[")

\* A matcher without the regex dialect.
match_repo_pattern_without_regex(pattern, repo) ==
    LET repo_full == repo.owner \o "/" \o repo.name
        platform_full == repo.platform \o ":" \o repo.owner \o "/" \o repo.name
    IN  IF Contains(pattern, ":") /\ ~IsGlob(pattern)
        THEN lower(pattern) = lower(platform_full)
        ELSE IF IsGlob(pattern)
        THEN fnmatch(lower(repo_full), lower(pattern))
               \/ fnmatch(lower(platform_full), lower(pattern))
        ELSE lower(pattern) = lower(repo_full)

\* A matcher for which an expression that does not compile matches everything.
match_repo_pattern_bad_regex_matches(pattern, repo) ==
    LET repo_full == repo.owner \o "/" \o repo.name
        platform_full == repo.platform \o ":" \o repo.owner \o "/" \o repo.name
    IN  IF startswith(pattern, "re:")
        THEN LET regex_pattern == From(pattern, 4)
             IN  IF re_error(regex_pattern) THEN TRUE
                 ELSE re_search(regex_pattern, repo_full)
                        \/ re_search(regex_pattern, platform_full)
        ELSE IF Contains(pattern, ":") /\ ~IsGlob(pattern)
        THEN lower(pattern) = lower(platform_full)
        ELSE IF IsGlob(pattern)
        THEN fnmatch(lower(repo_full), lower(pattern))
               \/ fnmatch(lower(platform_full), lower(pattern))
        ELSE lower(pattern) = lower(repo_full)

match_repo_pattern(pattern, repo) ==
    LET repo_full == repo.owner \o "/" \o repo.name
        platform_full == repo.platform \o ":" \o repo.owner \o "/" \o repo.name
    IN  IF startswith(pattern, "re:")
        THEN LET regex_pattern == From(pattern, 4)
             IN  IF re_error(regex_pattern) THEN FALSE
                 ELSE re_search(regex_pattern, repo_full)
                        \/ re_search(regex_pattern, platform_full)
        ELSE IF Contains(pattern, ":") /\ ~IsGlob(pattern)
        THEN lower(pattern) = lower(platform_full)
        ELSE IF IsGlob(pattern)
        THEN fnmatch(lower(repo_full), lower(pattern))
               \/ fnmatch(lower(platform_full), lower(pattern))
        ELSE lower(pattern) = lower(repo_full)

\* `repo not in specific_repos`: list membership by the dataclass's __eq__,
\* which compares every field.
InList(repo, list) == \E k \in 1..Len(list) : list[k] = repo

\* The inner loop `for repo in all_repos` from index j on: the new
\* specific_repos and pattern_matches.
RECURSIVE ScanCatalog(_, _, _, _, _)
ScanCatalog(pattern, all_repos, j, specific_repos, pattern_matches) ==
    IF j > Len(all_repos)
    THEN [specific_repos |-> specific_repos, pattern_matches |-> pattern_matches]
    ELSE IF match_repo_pattern(pattern, all_repos[j])
              /\ ~InList(all_repos[j], specific_repos)
         THEN ScanCatalog(pattern, all_repos, j + 1,
                          Append(specific_repos, all_repos[j]),
                          Append(pattern_matches, all_repos[j]))
         ELSE ScanCatalog(pattern, all_repos, j + 1, specific_repos, pattern_matches)

\* get_specific_repositories from the pattern of index k on: the list returned.
RECURSIVE get_specific_repositories(_, _, _, _)
get_specific_repositories(repo_patterns, all_repos, k, specific_repos) ==
    IF k > Len(repo_patterns) THEN specific_repos
    ELSE get_specific_repositories(repo_patterns, all_repos, k + 1,
             ScanCatalog(strip(repo_patterns[k]), all_repos, 1, specific_repos,
                         <<>>).specific_repos)

Patterns ==
    {"acme/app", "*/app", "github:acme/app", "GitHub:ACME/*", "re:^acme/",
     "re:[", " acme/lib ", "other/a?p", "acme/[al]*", "nobody/none", "re:.*APP$"}

resolveVars ==
    <<cfg, repos, mirror, clock, git_lfs, tasks, ws, tmp_files, local_files,
      s3_objects, phase, successful, failed, exit_status, epoch, hist, faults, rm>>

\* One iteration of `for pattern in repo_patterns`.
ResolvePattern ==
    /\ ~sel.returned
    /\ sel.next <= Len(sel.repo_patterns)
    /\ LET pattern == strip(sel.repo_patterns[sel.next])
           scan == ScanCatalog(pattern, sel.all_repos, 1, sel.specific_repos, <<>>)
       IN  sel' = [sel EXCEPT !.next = @ + 1,
                              !.specific_repos = scan.specific_repos,
                              !.matched_count = @ + Len(scan.pattern_matches),
                              !.no_match = IF scan.pattern_matches = <<>>
                                           THEN @ \cup {sel.next} ELSE @]
    /\ UNCHANGED resolveVars

\* `return specific_repos`
ResolveReturn ==
    /\ ~sel.returned
    /\ sel.next > Len(sel.repo_patterns)
    /\ sel' = [sel EXCEPT !.returned = TRUE]
    /\ UNCHANGED resolveVars

PatternLists ==
    UNION {[1..n -> Patterns] : n \in 0..MaxPatterns}

InitResolve ==
    /\ \E ps \in PatternLists, n \in 0..Len(Catalog) :
          sel = [repo_patterns |-> ps, all_repos |-> SubSeq(Catalog, 1, n),
                 next |-> 1, specific_repos |-> <<>>, matched_count |-> 0,
                 no_match |-> {}, returned |-> FALSE]
    /\ cfg = [local_backup |-> TRUE, s3_uploader |-> FALSE, method |-> "direct",
              parallel |-> FALSE, max_workers |-> 1]
    /\ repos = <<>>
    /\ git_lfs = TRUE
    /\ mirror = RunWorld
    /\ clock = 1
    /\ tasks = <<>>
    /\ ws = {}
    /\ tmp_files = {}
    /\ local_files = {}
    /\ s3_objects = {}
    /\ phase = "start"
    /\ successful = 0
    /\ failed = 0
    /\ exit_status = "running"
    /\ epoch = 1
    /\ hist = <<>>
    /\ faults = 0
    /\ rm = <<>>

NextResolve ==
    \/ ResolvePattern
    \/ ResolveReturn

SpecResolve == InitResolve /\ [][NextResolve]_vars


(***************************************************************************)
(* SpecOrchestrator: the two methods of RepoBackupOrchestrator a caller    *)
(* enters, on an orchestrator with any of the destinations or with none:   *)
(* run_backup, which resolves its list with get_all_repositories (and      *)
(* get_specific_repositories when patterns are given) before it starts the *)
(* tasks, and backup_repository for one descriptor.  sel is the frame of   *)
(* get_all_repositories.                                                   *)
(***************************************************************************)
\* What manager.get_repositories() returns when the platform answers.
ProviderCatalog(platform) ==
    SelectSeq(SubSeq(Catalog, 1, 3), LAMBDA r : r.platform = platform)

\* self.managers, in the order setup_from_env appends them.
ManagerLists == {<<>>, <<"github">>, <<"gitlab">>, <<"github", "gitlab">>}

\* The platforms argument.
PlatformFilters == {None, <<"GitLab">>, <<"bitbucket">>}

\* The specific_repos argument.
PatternArgs == {None, <<"nobody/none">>, <<"*/app">>}

\* `[(p, a, m) for p, a, m in self.managers if p in platforms_lower]`
managers_to_use(managers, platforms) ==
    IF platforms = None \/ platforms = <<>> THEN managers
    ELSE SelectSeq(managers,
                   LAMBDA p : \E k \in 1..Len(platforms) : p = lower(platforms[k]))

\* What an earlier run has left under the object store's temp root.
StaleUpload == S3TempDir \o "/old_clone"

orchVars == <<mirror, clock, git_lfs, epoch, hist, faults, rm, local_files, s3_objects>>

\* run_backup is entered: without a destination it logs and returns.
RunBackupEnter ==
    /\ phase = "entry"
    /\ IF ~cfg.s3_uploader /\ ~cfg.local_backup
       THEN phase' = "returned" /\ exit_status' = "0"
       ELSE phase' = "discover" /\ exit_status' = exit_status
    /\ UNCHANGED <<orchVars, cfg, repos, tasks, ws, tmp_files, successful, failed, sel>>

\* get_all_repositories is entered: the managers are filtered, and a filter
\* that leaves none returns the empty list at once.
GetAllEnter ==
    /\ phase = "discover" /\ sel.pc = "idle"
    /\ LET use == managers_to_use(sel.managers, sel.platforms)
       IN  sel' = [sel EXCEPT !.managers_to_use = use,
                              !.pc = IF sel.platforms # None /\ sel.platforms # <<>>
                                          /\ use = <<>>
                                     THEN "return" ELSE "for"]
    /\ UNCHANGED <<orchVars, cfg, repos, tasks, ws, tmp_files, phase, successful,
                   failed, exit_status>>

\* A loop that ends at the first provider that raises.
QueryManagerStopsAtError ==
    /\ phase = "discover" /\ sel.pc = "for"
    /\ sel.next <= Len(sel.managers_to_use)
    /\ \E answer \in {"repos", "none", "raises"} :
          sel' = [sel EXCEPT
                     !.next = @ + 1,
                     !.pc = IF answer = "raises" THEN "return" ELSE @,
                     !.answers = Append(@, answer),
                     !.all_repos = IF answer = "repos"
                                   THEN @ \o ProviderCatalog(sel.managers_to_use[sel.next])
                                   ELSE @]
    /\ UNCHANGED <<orchVars, cfg, repos, tasks, ws, tmp_files, phase, successful,
                   failed, exit_status>>

\* One iteration of `for platform, account_name, manager in managers_to_use`:
\* get_repositories returns repositories, returns nothing, or raises.
QueryManager ==
    /\ phase = "discover" /\ sel.pc = "for"
    /\ sel.next <= Len(sel.managers_to_use)
    /\ \E answer \in {"repos", "none", "raises"} :
          sel' = [sel EXCEPT
                     !.next = @ + 1,
                     !.answers = Append(@, answer),
                     !.all_repos = IF answer = "repos"
                                   THEN @ \o ProviderCatalog(sel.managers_to_use[sel.next])
                                   ELSE @]
    /\ UNCHANGED <<orchVars, cfg, repos, tasks, ws, tmp_files, phase, successful,
                   failed, exit_status>>

\* The loop is over: `return all_repos`.
GetAllReturn ==
    /\ phase = "discover" /\ sel.pc = "for"
    /\ sel.next > Len(sel.managers_to_use)
    /\ sel' = [sel EXCEPT !.pc = "return"]
    /\ UNCHANGED <<orchVars, cfg, repos, tasks, ws, tmp_files, phase, successful,
                   failed, exit_status>>

\* run_backup has its list: all_repos, or what get_specific_repositories
\* selects of it.
Resolved ==
    /\ phase = "discover" /\ sel.pc = "return"
    /\ repos' = IF sel.specific_repos = None THEN sel.all_repos
                ELSE get_specific_repositories(sel.specific_repos, sel.all_repos, 1, <<>>)
    /\ tasks' = [i \in 1..Len(repos') |-> NoTask]
    /\ sel' = [sel EXCEPT !.pc = "done"]
    /\ phase' = "start"
    /\ UNCHANGED <<orchVars, cfg, ws, tmp_files, successful, failed, exit_status>>

\* backup_repository(repo) is entered by a caller that is not run_backup.
CallBackupRepository ==
    /\ phase = "call"
    /\ tasks[1].pc = "pending"
    /\ tasks' = [tasks EXCEPT ![1].pc = BrEntry]
    /\ UNCHANGED <<cfgVars, envVars, fsVars, schedVars, epoch, hist, faults, sel, rm>>

InitOrchestrator ==
    /\ cfg \in [local_backup : BOOLEAN, s3_uploader : BOOLEAN, method : {"direct"},
                 parallel : {FALSE}, max_workers : {1}]
    /\ phase \in {"entry", "call"}
    /\ IF phase = "call"
       THEN /\ \E k \in 1..3 : repos = <<Catalog[k]>>
            /\ sel = <<>>
       ELSE /\ repos = <<>>
            /\ \E ms \in ManagerLists, ps \in PlatformFilters, rs \in PatternArgs :
                  sel = [managers |-> ms, platforms |-> ps, specific_repos |-> rs,
                         pc |-> "idle", managers_to_use |-> <<>>, next |-> 1,
                         all_repos |-> <<>>, answers |-> <<>>]
    /\ git_lfs = TRUE
    /\ mirror = RunWorld
    /\ clock = 1
    /\ tasks = [i \in 1..Len(repos) |-> NoTask]
    /\ ws \in {{}, {StaleUpload}}
    /\ tmp_files = {}
    /\ local_files = {}
    /\ s3_objects = {}
    /\ successful = 0
    /\ failed = 0
    /\ exit_status = "running"
    /\ epoch = 1
    /\ hist = <<>>
    /\ faults = 0
    /\ rm = <<>>

NextOrchestrator ==
    \/ RunBackupEnter
    \/ GetAllEnter
    \/ QueryManager
    \/ GetAllReturn
    \/ Resolved
    \/ CallBackupRepository
    \/ RunBackupBegin
    \/ \E i \in Indices : StartTask(i)
    \/ \E i \in Indices : TaskLocalClone(i)
    \/ \E i \in Indices : TaskLocalRest(i)
    \/ \E i \in Indices : TaskS3Clone(i)
    \/ \E i \in Indices : TaskS3Rest(i)
    \/ \E i \in Indices : TaskReturn(i)
    \/ \E i \in Indices : TaskExcept(i)
    \/ \E i \in Indices : Collect(i)
    \/ EndOfRunCleanup
    \/ Summary

SpecOrchestrator == InitOrchestrator /\ [][NextOrchestrator]_vars


(***************************************************************************)
(* SpecRm: one call robust_rmtree(path, logger, max_retries), statement by *)
(* statement.  shutil.rmtree either removes the tree or raises OSError.    *)
(***************************************************************************)
MaxRetries == 4    \* largest max_retries argument

RmPaths ==
    {LocalTempDir \o "/app_id1_clone", LocalTempDir \o "/lib_id2_clone",
     S3TempDir \o "/app_clone"}

\* A wait that does not grow.
sleep_for_constant(attempt) == 5

\* time.sleep(0.5 * (attempt + 1)), in tenths of a second.
sleep_for(attempt) == 5 * (attempt + 1)

rmVars ==
    <<cfg, repos, mirror, clock, git_lfs, tasks, ws, tmp_files, local_files,
      s3_objects, phase, successful, failed, exit_status, epoch, hist, faults, sel>>

\* `if not path.exists(): return True`
RmEntry ==
    /\ rm.pc = "entry"
    /\ rm' = IF rm.existed
             THEN [rm EXCEPT !.pc = "for"]
             ELSE [rm EXCEPT !.pc = "return", !.ret = "True"]
    /\ UNCHANGED rmVars

\* `for attempt in range(max_retries):` and, when the range is exhausted, the
\* `return False` below the loop.
RmFor ==
    /\ rm.pc = "for"
    /\ rm' = IF rm.attempt + 1 < rm.max_retries
             THEN [rm EXCEPT !.pc = "try", !.attempt = @ + 1]
             ELSE [rm EXCEPT !.pc = "return", !.ret = "False"]
    /\ UNCHANGED rmVars

\* `shutil.rmtree(path); return True`, or OSError is raised.
RmTry ==
    /\ rm.pc = "try"
    /\ \/ rm' = [rm EXCEPT !.pc = "return", !.ret = "True", !.calls = @ + 1,
                            !.removed = TRUE]
       \/ rm' = [rm EXCEPT !.pc = "except", !.calls = @ + 1, !.raised = @ + 1]
    /\ UNCHANGED rmVars

\* `except OSError`: sleep and go on, or warn and `return False`.
RmExcept ==
    /\ rm.pc = "except"
    /\ rm' = IF rm.attempt < rm.max_retries - 1
             THEN [rm EXCEPT !.pc = "for", !.slept = Append(@, sleep_for(rm.attempt))]
             ELSE [rm EXCEPT !.pc = "return", !.ret = "False"]
    /\ UNCHANGED rmVars

InitRm ==
    /\ \E path \in RmPaths, n \in 0..MaxRetries, existed \in BOOLEAN :
          rm = [path |-> path, max_retries |-> n, existed |-> existed,
                pc |-> "entry", attempt |-> -1, calls |-> 0, raised |-> 0,
                removed |-> FALSE, slept |-> <<>>, ret |-> "none"]
    /\ cfg = [local_backup |-> TRUE, s3_uploader |-> FALSE, method |-> "direct",
              parallel |-> FALSE, max_workers |-> 1]
    /\ repos = <<>>
    /\ git_lfs = TRUE
    /\ mirror = RunWorld
    /\ clock = 1
    /\ tasks = <<>>
    /\ ws = {}
    /\ tmp_files = {}
    /\ local_files = {}
    /\ s3_objects = {}
    /\ phase = "start"
    /\ successful = 0
    /\ failed = 0
    /\ exit_status = "running"
    /\ epoch = 1
    /\ hist = <<>>
    /\ faults = 0
    /\ sel = <<>>

NextRm ==
    \/ RmEntry
    \/ RmFor
    \/ RmTry
    \/ RmExcept

SpecRm == InitRm /\ [][NextRm]_vars

\* The call is not suspended for ever.
FairSpecRm == SpecRm /\ WF_vars(NextRm)


(***************************************************************************)
(* Properties of run_backup, checked under Spec and FairSpec.              *)
(***************************************************************************)
HasDestination == cfg.local_backup \/ cfg.s3_uploader

AllCollected == \A i \in Indices : tasks[i].pc = "collected"

Outcomes == {"Success", "Skipped-Empty", "Skipped-Exists", "Failed"}

\* C1: at every moment successful + failed is the number of results the loop
\* has collected (no lost and no double increment, whatever the order of
\* completion), and once the loop is over it is the number of resolved
\* repositories, for every pool size and in sequential mode.
C1_CountersPartitionResolved ==
    /\ successful + failed = Cardinality({i \in Indices : tasks[i].pc = "collected"})
    /\ (HasDestination /\ phase \in {"summary", "returned", "crashed"})
          => successful + failed = Len(repos)

\* A parallel run of two repositories with two workers, one counted in each
\* counter, has reached its summary.
C1_Witness ==
    /\ phase = "summary"
    /\ cfg.parallel /\ cfg.max_workers >= 2
    /\ Len(repos) >= 2
    /\ successful >= 1 /\ failed >= 1

\* C2: the summary is reported only when every task has been collected; a
\* task that is leaving backup_repository has one of the four outcomes from
\* every configured destination and returns True or False; a task that has
\* ended has a result of True or False (an exception is a False); and under
\* fair scheduling a run that has started its tasks collects every one of
\* them, whatever the other tasks returned or raised.
C2_EveryTaskEndsBeforeSummary ==
    /\ [](phase \in {"summary", "returned"} /\ HasDestination => AllCollected)
    /\ [](\A i \in Indices :
             /\ tasks[i].pc = "br_end" =>
                   /\ cfg.local_backup => tasks[i].out_local \in Outcomes
                   /\ cfg.s3_uploader => tasks[i].out_s3 \in Outcomes
             /\ tasks[i].pc \in {"done", "collected"} =>
                   tasks[i].result \in {"True", "False"})
    /\ (phase = "running") ~> (AllCollected /\ phase \in {"summary", "crashed"})

\* The first task has failed, an external call or the task body having
\* raised, the second has succeeded after it, and the summary is reached.
C2_Witness ==
    /\ phase = "summary"
    /\ Len(repos) >= 2
    /\ faults >= 1
    /\ tasks[1].pc = "collected" /\ tasks[1].result = "False"
    /\ tasks[2].pc = "collected" /\ tasks[2].result = "True"

\* C3: with a destination and at least one repository, the process has ended
\* with a non-zero status exactly when failed > 0, and the status is set only
\* after every task was collected and the end-of-run cleanup has run.
C3_NonZeroIffFailed ==
    (HasDestination /\ Len(repos) > 0 /\ exit_status # "running")
        => /\ AllCollected
           /\ (exit_status = "1") <=> (failed > 0)
           /\ phase = "returned"

\* C8: two tasks in flight at the same time hold different workspace
\* directories and different temporary artifact files.
C8_InFlightPathsDisjoint ==
    \A i, j \in Indices :
        (i # j /\ InFlight(i) /\ InFlight(j)) =>
            /\ tasks[i].repo_path # "" => tasks[i].repo_path # tasks[j].repo_path
            /\ tasks[i].tmp_path # "" => tasks[i].tmp_path # tasks[j].tmp_path

(***************************************************************************)
(* Properties of one backend call, checked under SpecTask.                 *)
(***************************************************************************)
Calls == 1..Len(hist)

\* _archive_upload never gets as far as an upload (s3_key_base); C4 and C9
\* are stated for the other three backend methods, where the call can succeed.
S3ArchiveCall == cfg.s3_uploader /\ cfg.method = "archive"

\* C4: every call that created its workspace, and none of whose removals was
\* refused by the filesystem, has removed the workspace exactly once when it
\* returns, whatever its outcome.
C4_WorkspaceRemovedExactlyOnce ==
    \A k \in Calls :
        (~S3ArchiveCall /\ hist[k].cloned /\ "rm" \notin hist[k].bad)
            => (~hist[k].left /\ hist[k].rm_count = 1)

\* C5: of two consecutive calls that meet no failing external call, against
\* the same commits of a plain (non-LFS) repository, the second is
\* Skipped-Exists, returns True, writes nothing, and leaves one artifact.
C5_SecondRunSkipsExisting ==
    \A k \in Calls :
        (/\ k + 1 \in Calls
         /\ hist[k].bad = {} /\ hist[k + 1].bad = {}
         /\ hist[k].remote = hist[k + 1].remote
         /\ hist[k].remote.head > 0 /\ ~hist[k].remote.lfs)
            => /\ hist[k + 1].outcome = "Skipped-Exists"
               /\ hist[k + 1].ret = "True"
               /\ hist[k + 1].wrote = {}
               /\ hist[k + 1].primaries = 1

\* C6: a call against a repository without commits, meeting no failing
\* external call, is Skipped-Empty, returns True and leaves no artifact.
C6_EmptyRepositorySkipped ==
    \A k \in Calls :
        (hist[k].remote.all = 0 /\ hist[k].bad = {})
            => /\ hist[k].outcome = "Skipped-Empty"
               /\ hist[k].ret = "True"
               /\ hist[k].wrote = {}
               /\ hist[k].primaries = 0

\* C9: a call against a repository whose .gitattributes names the LFS filter,
\* on a host without git-lfs, meeting no failing external call, is Failed
\* with the LFS message, has removed its workspace, and has left no artifact
\* and no sidecar of its fingerprint.
C9_LfsToolMissingFails ==
    \A k \in Calls :
        (/\ ~S3ArchiveCall
         /\ ShowsLfsFilter(hist[k].remote) /\ ~git_lfs
         /\ hist[k].cloned /\ hist[k].bad = {})
            => /\ hist[k].outcome = "Failed"
               /\ hist[k].msg = "lfs_missing"
               /\ ~hist[k].left
               /\ hist[k].wrote = {}
               /\ ~hist[k].artifact /\ ~hist[k].sidecar

\* C10: the fingerprint a call computed is the time of the latest commit over
\* all refs, and a call that follows a push of a newer commit to any branch
\* is not Skipped-Exists.
C10_FingerprintCoversAllRefs ==
    \A k \in Calls :
        /\ (hist[k].fp # "" /\ hist[k].remote.all > 0)
              => hist[k].fp = strftime(hist[k].remote.all)
        /\ (/\ k + 1 \in Calls
            /\ hist[k + 1].bad = {}
            /\ hist[k + 1].remote.all > hist[k].remote.all)
              => hist[k + 1].outcome # "Skipped-Exists"

\* The order in which the engine is to perform the steps of a task.
Rank(step) ==
    CASE step = "clone" -> 1
      [] step = "fingerprint" -> 2
      [] step = "exists" -> 3
      [] step \in {"lfs", "lfs_fetch"} -> 4
      [] step = "seal" -> 5
      [] step = "write" -> 6
      [] OTHER -> 7

Has(steps, step) == \E a \in 1..Len(steps) : steps[a] = step

\* C11: the steps a call has performed so far are in the order clone,
\* fingerprint, existence check, LFS check and fetch, seal, write, cleanup;
\* a call that has fetched LFS objects or has sealed has made its existence
\* check before.
C11_StepsInOrder ==
    LET steps == tasks[1].steps
    IN  /\ \A a, b \in 1..Len(steps) : a < b => Rank(steps[a]) <= Rank(steps[b])
        /\ Has(steps, "lfs_fetch") => Has(steps, "exists")
        /\ Has(steps, "seal") => Has(steps, "exists")

\* What the destinations stored when call k was entered.
PriorStored(k) == IF k = 1 THEN {} ELSE hist[k - 1].stored

C14_RemovalFailureKeepsOutcome ==
    \A k \in Calls :
        (hist[k].wrote # {} /\ hist[k].bad = {"rm"})
            => hist[k].ret = "True" /\ hist[k].outcome = "Success"

\* C18: an object-store call whose verifying probe failed does not return
\* True, and an object-store call that ended as Success had its upload
\* confirmed by the probe.
C18_SuccessOnlyIfVerified ==
    \A k \in Calls :
        hist[k].be = "s3" =>
            /\ (Has(hist[k].steps, "write") /\ "verify" \in hist[k].bad)
                  => hist[k].ret # "True"
            /\ hist[k].outcome = "Success" => "verify" \notin hist[k].bad

\* C19: no call writes to a path or key under which the destination stored
\* something when the call was entered, and everything stored then is still
\* stored when the call returns.
C19_StoredArtifactsImmutable ==
    \A k \in Calls :
        /\ hist[k].wrote \cap PriorStored(k) = {}
        /\ PriorStored(k) \subseteq hist[k].stored

\* The names a sidecar of the fingerprint fp has at the two destinations.
SidecarEntries(fp) ==
    {PlatformDir(TaskRepo) \o "/" \o TaskRepo.name \o "_" \o fp \o "_lfs.tar.gz",
     S3Prefix \o "/" \o TaskRepo.platform \o "/" \o TaskRepo.owner \o "/"
         \o TaskRepo.name \o "_" \o fp \o "_lfs.tar.gz"}

\* C21: a call that fetched LFS objects and ended as Success has written,
\* besides its primary artifact, the sidecar <name>_<fingerprint>_lfs.tar.gz
\* to the same destination, whatever the backend and the seal method.
C21_LfsSidecarWritten ==
    \A k \in Calls :
        (hist[k].has_lfs /\ hist[k].outcome = "Success")
            => /\ hist[k].wrote \cap SidecarEntries(hist[k].fp) # {}
               /\ hist[k].stored \cap SidecarEntries(hist[k].fp) # {}

\* The key of the archive of the repository sealed at the commit time t.
ArchiveKey(t) ==
    S3Prefix \o "/" \o TaskRepo.platform \o "/" \o TaskRepo.owner \o "/"
        \o TaskRepo.name \o "_" \o strftime(t) \o ".tar.gz"

\* C25: an object-store call with the archive method against a repository
\* with commits, meeting no failing external call, returns True, as Success
\* having written <prefix>/<platform>/<owner>/<name>_<fp>.tar.gz or as
\* Skipped-Exists having written nothing, and leaves the object of the latest
\* commit stored; a call that follows such a call against the same commits is
\* Skipped-Exists.
C25_ArchiveUploadContract ==
    \A k \in Calls :
        (/\ hist[k].be = "s3" /\ cfg.method = "archive"
         /\ hist[k].remote.all > 0 /\ hist[k].bad = {})
            => /\ hist[k].ret = "True"
               /\ \/ /\ hist[k].outcome = "Success"
                     /\ hist[k].wrote = {ArchiveKey(hist[k].remote.all)}
                  \/ /\ hist[k].outcome = "Skipped-Exists"
                     /\ hist[k].wrote = {}
               /\ ArchiveKey(hist[k].remote.all) \in hist[k].stored
               /\ (k > 1 /\ hist[k - 1].bad = {} /\ hist[k - 1].remote = hist[k].remote)
                     => hist[k].outcome = "Skipped-Exists"

\* <root-or-prefix>/<platform>/<owner>/<name>_<fingerprint><ext>
Location(root, r, fp, ext) ==
    root \o "/" \o r.platform \o "/" \o r.owner \o "/" \o r.name \o "_" \o fp \o ext

\* Where the primary artifact of call k belongs.
PrimaryLocation(k) ==
    Location(IF hist[k].be = "local" THEN "backup" ELSE S3Prefix, TaskRepo, hist[k].fp,
             IF cfg.method = "direct" THEN ".bundle" ELSE ".tar.gz")

C33_LfsFetchFailureFails ==
    \A k \in Calls :
        (~S3ArchiveCall /\ ShowsLfsFilter(hist[k].remote) /\ git_lfs) =>
            /\ hist[k].bad = {"fetch"} =>
                  /\ hist[k].outcome = "Failed" /\ hist[k].ret = "False"
                  /\ ~Has(hist[k].steps, "seal")
                  /\ hist[k].wrote = {}
                  /\ ~hist[k].left
            /\ hist[k].wrote # {} => hist[k].has_lfs

\* C34: a call that ended as Failed has left the destination as it was when
\* the call was entered, and a call that follows it and is Skipped-Exists has
\* found an artifact the destination stored before the failed call.
C34_FailedLeavesDestinationUnchanged ==
    \A k \in Calls :
        hist[k].outcome = "Failed" =>
            /\ hist[k].stored = PriorStored(k)
            /\ (k + 1 \in Calls /\ hist[k + 1].outcome = "Skipped-Exists")
                  => PrimaryLocation(k + 1) \in PriorStored(k)

\* A backend that has just cloned the mirror m into its workspace.
Cloned(be, m) ==
    [t |-> [NoTask EXCEPT !.be = be, !.pc = "log", !.snap = m,
                          !.repo_path = "workspace"],
     ws |-> {"workspace"}, tmp_files |-> {}, local_files |-> {}, s3_objects |-> {}]

\* What the fingerprint step of each backend makes of the mirror m.
LocalFingerprintOf(m) == LocalFingerprint(Cloned("local", m), TaskRepo, OkLocalEnv).t

S3FingerprintOf(m) == S3Fingerprint(Cloned("s3", m), TaskRepo, OkS3Env).t

\* C36: of a hosted repository whose HEAD has commits, the fingerprint step
\* of the local backend and that of the object-store backend compute the
\* same fingerprint, whatever the refs and their commit times.
C36_SameFingerprintAtBothDestinations ==
    LET m == mirror[TaskRepo.clone_url]
    IN  m.head > 0 =>
            /\ LocalFingerprintOf(m).fp # ""
            /\ LocalFingerprintOf(m).fp = S3FingerprintOf(m).fp

(***************************************************************************)
(* Properties of upload_repository, checked under SpecUpload.              *)
(***************************************************************************)
\* C23: two calls that have cloned the same commits of the hosted repository
\* and computed a fingerprint from their mirrors have computed the same
\* string, at whatever second each of them ran.
C23_FingerprintOfCommitsOnly ==
    \A j, k \in Calls :
        (/\ hist[j].remote = hist[k].remote
         /\ Has(hist[j].steps, "fingerprint") /\ hist[j].fp # ""
         /\ Has(hist[k].steps, "fingerprint") /\ hist[k].fp # "")
            => hist[j].fp = hist[k].fp

\* The bundles the local backend has left of the repository.
OwnBundles ==
    {BundlePath(TaskRepo, strftime(t)) : t \in 0..(MaxTime + 1)}
        \cap {f.path : f \in local_files}

\* C38: a call that has uploaded a local bundle without cloning has taken a
\* bundle of the (platform, owner, name) of its repository, and of these the
\* one with the greatest fingerprint.
C38_FastPathUploadsOwnBundle ==
    (/\ tasks[1].pc = "ret" /\ tasks[1].be = "s3"
     /\ tasks[1].clones = 0 /\ tasks[1].wrote # {})
        => \A p \in tasks[1].dest \cap {f.path : f \in local_files} :
              /\ p \in OwnBundles
              /\ \A q \in OwnBundles : q = p \/ StrLess(q, p)

\* C30: every object of the bucket was sent with server-side encryption and
\* with the metadata keys platform, owner, is_private and default_branch,
\* which hold the descriptor's platform and owner, its visibility as a
\* string, and its default branch or, the descriptor having none, "unknown".
C30_ObjectsEncryptedWithMetadata ==
    \A o \in s3_objects :
        /\ "ServerSideEncryption" \in DOMAIN o.extra
        /\ o.extra.ServerSideEncryption = "AES256"
        /\ "Metadata" \in DOMAIN o.extra
        /\ {"platform", "owner", "is_private", "default_branch"}
              \subseteq DOMAIN o.extra.Metadata
        /\ o.extra.Metadata.platform = TaskRepo.platform
        /\ o.extra.Metadata.owner = TaskRepo.owner
        /\ o.extra.Metadata.is_private \in {"True", "False"}
        /\ o.extra.Metadata.default_branch # None
        /\ TaskRepo.default_branch = None
              => o.extra.Metadata.default_branch = "unknown"

\* The bucket holds a bundle a call has sealed and uploaded, and a local
\* bundle a later call has uploaded as it was.
C30_Witness ==
    \E o1, o2 \in s3_objects :
        /\ "source" \notin DOMAIN o1.extra.Metadata
        /\ "source" \in DOMAIN o2.extra.Metadata
        /\ Len(hist) = 2
        /\ hist[1].clones = 1 /\ hist[2].clones = 0

(***************************************************************************)
(* Further properties of run_backup, checked under Spec and SpecRestart.   *)
(***************************************************************************)
\* C13: two tasks whose descriptors differ in (platform, owner, name) have
\* probed and written disjoint sets of destination paths and object keys.
C13_DistinctTriplesDistinctEntries ==
    \A i, j \in Indices :
        Triple(repos[i]) # Triple(repos[j]) => tasks[i].dest \cap tasks[j].dest = {}

\* acme/app and other/app, of the same name and the same fingerprint, are in
\* flight together in a parallel run after each has probed and written both
\* destinations.
C13_Witness ==
    /\ cfg.parallel /\ cfg.local_backup /\ cfg.s3_uploader
    /\ Len(repos) >= 2
    /\ repos[1].name = repos[2].name /\ Triple(repos[1]) # Triple(repos[2])
    /\ tasks[1].pc = "br_end" /\ tasks[2].pc = "br_end"
    /\ Cardinality(tasks[1].dest) >= 2 /\ Cardinality(tasks[2].dest) >= 2
    /\ tasks[1].result_local = "True" /\ tasks[2].result_local = "True"

\* No task of the run has attempted a clone yet.
NoCloneYet ==
    \A i \in Indices : tasks[i].pc \in {"pending", "br_local", "br_s3"}
                          /\ tasks[i].clones = 0

\* C16: when the tasks of a run are started nothing an earlier run left
\* behind is under the temp roots, and in a sequential run with the direct
\* method, git-lfs installed and no failing external call every task returns
\* True.
C16_StaleWorkspacesReaped ==
    /\ (phase = "running" /\ NoCloneYet) => ws \cap StaleDirs = {}
    /\ (faults = 0 /\ git_lfs /\ cfg.method = "direct" /\ ~cfg.parallel)
          => \A i \in Indices :
                tasks[i].pc \in {"done", "collected"} => tasks[i].result = "True"

\* C17: when run_backup has reached its summary, no workspace directory is
\* left under the temp root of any backend.
C17_NoWorkspaceAfterRun ==
    (HasDestination /\ phase \in {"summary", "returned"}) => ws = {}

\* C20: a task has cloned its repository at most once, and exactly once when
\* it makes its report.
C20_OneCloneOneWorkspace ==
    \A i \in Indices :
        /\ tasks[i].clones <= 1
        /\ tasks[i].pc = "br_end" => tasks[i].clones = 1

\* C22: with both destinations configured, a task whose local backend has
\* left the artifact of the repository on disk (it ended as Success or as
\* Skipped-Exists) makes no clone of its own in its object-store write.
C22_LocalArtifactReusedWithoutClone ==
    \A i \in Indices :
        (/\ cfg.local_backup /\ cfg.s3_uploader
         /\ tasks[i].be = "s3"
         /\ tasks[i].out_local \in {"Success", "Skipped-Exists"})
            => ~Has(tasks[i].steps, "clone")

\* C35: with both destinations, the local backend has returned before the
\* object-store call is entered, the object-store call is made whatever the
\* local backend returned, and a task that makes its report has a value from
\* each; the report is True exactly when one of the two values is True; and
\* the run counts a task as failed exactly when its report is False.
C35_AnyDestinationSucceeds ==
    /\ [](\A i \in Indices : (cfg.local_backup /\ cfg.s3_uploader) =>
             /\ (tasks[i].pc = "br_local" \/ tasks[i].be = "local") =>
                   tasks[i].result_local = "none" /\ tasks[i].result_s3 = "none"
             /\ (tasks[i].pc = "br_s3" \/ tasks[i].be = "s3") =>
                   tasks[i].result_local \in {"True", "False"}
                       /\ tasks[i].result_s3 = "none"
             /\ tasks[i].pc = "br_end" =>
                   tasks[i].result_local \in {"True", "False"}
                       /\ tasks[i].result_s3 \in {"True", "False"})
    /\ [][\A i \in Indices :
             (tasks[i].pc = "br_end" /\ tasks'[i].pc = "done" /\ faults' = faults) =>
                 (tasks'[i].result = "True" <=>
                     (tasks[i].result_local = "True" \/ tasks[i].result_s3 = "True"))]_vars
    /\ [][\A i \in Indices :
             (tasks[i].pc = "done" /\ tasks'[i].pc = "collected") =>
                 /\ (failed' = failed + 1) <=> (tasks[i].result = "False")
                 /\ (successful' = successful + 1) <=> (tasks[i].result = "True")]_vars

\* With both destinations, the local backend has failed and the object-store
\* call made after it has succeeded: the task is about to report.
C35_Witness ==
    /\ cfg.local_backup /\ cfg.s3_uploader
    /\ \E i \in Indices :
          /\ tasks[i].pc = "br_end"
          /\ tasks[i].result_local = "False" /\ tasks[i].result_s3 = "True"

\* C37: the end-of-run cleanup is entered only when every task of the run
\* has returned and was collected; what it removes is the workspace of no
\* task in flight; once it was entered no task is in flight or waiting, and
\* no task takes a step.
C37_CleanupAfterAllTasks ==
    /\ [][(phase = "running" /\ phase' \in {"summary", "crashed"}) =>
             /\ \A i \in Indices : tasks[i].pc = "collected"
             /\ \A d \in (ws \ ws') \cup (tmp_files \ tmp_files') :
                   ~\E i \in Indices :
                       InFlight(i) /\ d \in {tasks[i].repo_path, tasks[i].tmp_path}]_vars
    /\ []((HasDestination /\ Len(repos) > 0 /\ phase \in {"summary", "crashed", "returned"})
             => \A i \in Indices : ~InFlight(i) /\ tasks[i].pc # "pending")
    /\ [][(phase \in {"summary", "crashed", "returned"}) => (tasks' = tasks)]_vars

\* A parallel run of two tasks with two workers, in which an external call
\* has failed, has made its cleanup: every task was collected and no
\* workspace is left.
C37_Witness ==
    /\ phase = "summary"
    /\ cfg.parallel /\ cfg.max_workers >= 2
    /\ Len(repos) >= 2
    /\ faults >= 1
    /\ \A i \in Indices : tasks[i].pc = "collected"
    /\ ws = {}

(***************************************************************************)
(* Properties of the worker pool, checked under FairSpecPool.              *)
(***************************************************************************)
\* The pool can hand task i to a worker: it is the next of the queue and
\* fewer tasks are executing than the pool has workers.
Startable(i) ==
    /\ phase = "running" /\ cfg.parallel
    /\ i \in Indices
    /\ tasks[i].pc = "pending"
    /\ \A j \in 1..(i - 1) : tasks[j].pc # "pending"
    /\ Cardinality({j \in Indices : InFlight(j)})
          < (IF cfg.max_workers = 0 THEN 5 ELSE cfg.max_workers)

\* C29: in a parallel run the tasks executing at one time are never more
\* than the worker count, which is 5 when none is given; a task that has
\* started is never put back in the queue; the next waiting task can be
\* started whenever fewer tasks execute than there are workers, whatever the
\* executing tasks are doing, and it is started even if they never move.
C29_WorkerPoolBound ==
    /\ [](cfg.parallel =>
             Cardinality({j \in Indices : InFlight(j)})
                 <= (IF cfg.max_workers = 0 THEN 5 ELSE cfg.max_workers))
    /\ [][\A i \in Indices : tasks[i].pc # "pending" => tasks'[i].pc # "pending"]_vars
    /\ [](\A i \in Indices : Startable(i) => ENABLED StartTask(i))
    /\ \A i \in 1..MaxRepos :
          Startable(i) ~> (i \in Indices /\ tasks[i].pc # "pending")

\* One worker, two repositories: the first task is executing its
\* object-store write and the second is waiting.
C29_Witness ==
    /\ cfg.parallel /\ cfg.max_workers = 1
    /\ Len(repos) = 2
    /\ tasks[1].be = "s3" /\ InFlight(1)
    /\ tasks[2].pc = "pending"

(***************************************************************************)
(* Properties of the orchestrator's entry points, checked under            *)
(* SpecOrchestrator.                                                       *)
(***************************************************************************)
\* C31: on an orchestrator without a destination, backup_repository goes
\* from its entry to its report and returns False, having cloned nothing and
\* probed or written no destination entry; run_backup returns with no
\* provider queried, no list resolved and no task; and no step changes the
\* temp roots, the backup root or the bucket.
C31_NoDestinationDoesNothing ==
    /\ [](~HasDestination =>
             /\ phase \in {"entry", "returned", "call"}
             /\ \A i \in Indices :
                   /\ tasks[i].pc \in {"pending", "br_end", "done"}
                   /\ tasks[i].clones = 0 /\ tasks[i].dest = {}
                   /\ tasks[i].repo_path = "" /\ tasks[i].steps = <<>>
                   /\ tasks[i].pc = "done" => tasks[i].result = "False"
             /\ phase \in {"entry", "returned"} =>
                   /\ sel.pc = "idle" /\ sel.answers = <<>>
                   /\ repos = <<>> /\ tasks = <<>>)
    /\ [][(~HasDestination) => UNCHANGED <<ws, tmp_files, local_files, s3_objects>>]_vars

\* backup_repository has returned False on an orchestrator without a
\* destination, and what an earlier run left under the temp root is there.
C31_Witness ==
    /\ ~HasDestination
    /\ phase = "call"
    /\ tasks[1].pc = "done" /\ tasks[1].result = "False"
    /\ ws = {StaleUpload}

\* The providers the platform filter selects, in the order of the managers.
SelectedProviders ==
    IF sel.platforms = None THEN sel.managers
    ELSE SelectSeq(sel.managers,
                   LAMBDA p : \E k \in 1..Len(sel.platforms) :
                                 lower(sel.platforms[k]) = lower(p))

\* The catalogs of the providers that answered with repositories, one after
\* the other.
RECURSIVE AnsweredCatalogs(_, _)
AnsweredCatalogs(providers, answers) ==
    IF answers = <<>> THEN <<>>
    ELSE (IF Head(answers) = "repos" THEN ProviderCatalog(Head(providers)) ELSE <<>>)
             \o AnsweredCatalogs(Tail(providers), Tail(answers))

\* C32: the list get_all_repositories has built is the concatenation, in
\* provider order, of the catalogs of the selected providers that answered so
\* far; when it returns, every selected provider was queried, whatever the
\* providers before it answered or raised; and the list is empty when no
\* provider is configured or the filter selects none.
C32_CatalogsOfAnsweringProviders ==
    (phase # "call" /\ sel.pc \in {"for", "return", "done"}) =>
        /\ Len(sel.answers) <= Len(SelectedProviders)
        /\ sel.all_repos =
              AnsweredCatalogs(SubSeq(SelectedProviders, 1, Len(sel.answers)), sel.answers)
        /\ sel.pc \in {"return", "done"} =>
              /\ Len(sel.answers) = Len(SelectedProviders)
              /\ (sel.managers = <<>> \/ SelectedProviders = <<>>) => sel.all_repos = <<>>

\* The first of two providers has raised and the second has answered:
\* get_all_repositories returns the catalog of the second.
C32_Witness ==
    /\ phase = "discover" /\ sel.pc = "return"
    /\ sel.managers = <<"github", "gitlab">> /\ sel.platforms = None
    /\ sel.answers = <<"raises", "repos">>
    /\ sel.all_repos = <<Catalog[3]>>

\* C39: a run_backup whose resolved list is empty starts no task, never
\* reaches the end-of-run cleanup or the summary, changes nothing under the
\* temp roots, and returns with the process status 0.
C39_EmptyListReturnsQuietly ==
    /\ []((phase \in {"start", "running", "summary", "crashed", "returned"}
             /\ HasDestination /\ Len(repos) = 0) =>
                /\ phase \in {"start", "returned"}
                /\ tasks = <<>>
                /\ successful = 0 /\ failed = 0
                /\ exit_status = (IF phase = "returned" THEN "0" ELSE "running"))
    /\ [][(phase # "call" /\ HasDestination /\ Len(repos') = 0) =>
             UNCHANGED <<ws, tmp_files, local_files, s3_objects>>]_vars

\* Both providers have raised, nothing was resolved and run_backup has
\* returned; what an earlier run left under the temp root is still there.
C39_Witness ==
    /\ phase = "returned" /\ HasDestination
    /\ sel.pc = "done" /\ sel.answers = <<"raises", "raises">>
    /\ repos = <<>>
    /\ ws = {StaleUpload}
    /\ exit_status = "0"

(***************************************************************************)
(* Properties of robust_rmtree, checked under FairSpecRm.                  *)
(***************************************************************************)
RmReturned == rm.pc = "return"

\* C15: the call returns, after at most max_retries removal attempts; it
\* returns True exactly when the directory was absent at entry or an attempt
\* removed it, and False exactly when the directory was there and all
\* max_retries attempts raised OSError; the k-th wait is 0.5 s times k, the
\* number of attempts that have failed so far, so the waits grow strictly;
\* every wait is followed by another attempt; the call ends by returning
\* True or False, never by the OSError.
C15_RobustRmtreeBoundedRetries ==
    /\ [](/\ rm.calls <= rm.max_retries
          /\ \A k \in 1..Len(rm.slept) : rm.slept[k] = 5 * k
          /\ \A a, b \in 1..Len(rm.slept) : a < b => rm.slept[a] < rm.slept[b]
          /\ Len(rm.slept) <= rm.raised
          /\ RmReturned =>
                /\ rm.ret \in {"True", "False"}
                /\ (rm.ret = "True") <=> (~rm.existed \/ rm.removed)
                /\ (rm.ret = "False") <=>
                      (rm.existed /\ rm.calls = rm.max_retries
                                  /\ rm.raised = rm.max_retries)
                /\ rm.calls >= 1 => Len(rm.slept) = rm.calls - 1)
    /\ <>RmReturned

\* With the default of three attempts, all three have raised: two waits, and
\* the call has returned False.
C15_Witness ==
    /\ RmReturned /\ rm.ret = "False"
    /\ rm.max_retries = max_retries
    /\ rm.calls = 3 /\ rm.raised = 3
    /\ rm.slept = <<5, 10>>

(***************************************************************************)
(* Properties of get_specific_repositories, checked under SpecResolve.     *)
(***************************************************************************)
\* Where a descriptor is first matched: the first pattern that matches it,
\* and its first place in the catalog.
FirstMatch(repo) ==
    LET ps == {k \in 1..Len(sel.repo_patterns) :
                  match_repo_pattern(strip(sel.repo_patterns[k]), repo)}
        cs == {j \in 1..Len(sel.all_repos) : sel.all_repos[j] = repo}
    IN  <<CHOOSE k \in ps : \A m \in ps : k <= m,
          CHOOSE j \in cs : \A m \in cs : j <= m>>

Before(a, b) == a[1] < b[1] \/ (a[1] = b[1] /\ a[2] < b[2])

\* The four dialects, as the selection rules word them.
Dialect(pattern) ==
    LET meta == \E i \in 1..Len(pattern) : Char(pattern, i) \in {"*", "?", "["}
        colon == \E i \in 1..Len(pattern) : Char(pattern, i) = ":"
        regex == Len(pattern) >= 3 /\ SubSeq(pattern, 1, 3) = "re:"
    IN  {d \in {"regex", "platform", "glob", "exact"} :
            \/ d = "regex" /\ regex
            \/ d = "platform" /\ ~regex /\ colon /\ ~meta
            \/ d = "glob" /\ ~regex /\ meta
            \/ d = "exact" /\ ~regex /\ ~colon /\ ~meta}

DialectResult(d, pattern, repo) ==
    LET short == lower(repo.owner \o "/" \o repo.name)
        long == lower(repo.platform \o ":" \o repo.owner \o "/" \o repo.name)
    IN  CASE d = "regex" ->
               /\ ~re_error(SubSeq(pattern, 4, Len(pattern)))
               /\ \/ re_search(SubSeq(pattern, 4, Len(pattern)), short)
                  \/ re_search(SubSeq(pattern, 4, Len(pattern)), long)
          [] d = "platform" -> lower(pattern) = long
          [] d = "glob" -> fnmatch(short, lower(pattern)) \/ fnmatch(long, lower(pattern))
          [] OTHER -> lower(pattern) = short

\* A pattern of the list matches the descriptor by the rule of its dialect.
Selects(k, repo) ==
    LET pattern == strip(sel.repo_patterns[k])
    IN  \E d \in Dialect(pattern) : DialectResult(d, pattern, repo)

\* C26: the pattern that was handled last belongs to exactly one dialect
\* (regex, then platform-exact, then glob, then exact) and match_repo_pattern
\* has returned that dialect's result for every descriptor of the catalog;
\* the list holds, after a pattern was handled, every
\* descriptor of the catalog the pattern selects by its dialect and nothing
\* that no handled pattern selects.
C26_OneDialectPerPattern ==
    /\ \A k \in {sel.next - 1} \cap DOMAIN sel.repo_patterns :
          LET pattern == strip(sel.repo_patterns[k])
          IN  /\ Cardinality(Dialect(pattern)) = 1
              /\ \A j \in 1..Len(sel.all_repos) :
                    match_repo_pattern(pattern, sel.all_repos[j])
                        <=> Selects(k, sel.all_repos[j])
    /\ \A k \in 1..(sel.next - 1), j \in 1..Len(sel.all_repos) :
          Selects(k, sel.all_repos[j]) => InList(sel.all_repos[j], sel.specific_repos)
    /\ \A a \in 1..Len(sel.specific_repos) :
          \E k \in 1..(sel.next - 1) : Selects(k, sel.specific_repos[a])

\* A glob that holds a colon and an upper-case regex that holds a star have
\* selected, from the whole catalog, acme/app (both reports) and then
\* other/app.
C26_Witness ==
    /\ sel.returned
    /\ sel.repo_patterns = <<"GitHub:ACME/*", "re:.*APP$">>
    /\ Len(sel.all_repos) = Len(Catalog)
    /\ sel.specific_repos = <<Catalog[1], Catalog[4], Catalog[2]>>

\* The pattern is a regex that does not compile.
Malformed(pattern) ==
    startswith(strip(pattern), "re:") /\ re_error(From(strip(pattern), 4))

RECURSIVE WithoutMalformed(_)
WithoutMalformed(patterns) ==
    IF patterns = <<>> THEN <<>>
    ELSE IF Malformed(Head(patterns)) THEN WithoutMalformed(Tail(patterns))
    ELSE <<Head(patterns)>> \o WithoutMalformed(Tail(patterns))

\* C27: a regex that does not compile matches no descriptor and is reported
\* as matching nothing; the patterns after it are handled, and the list
\* returned is the list the same patterns without it return.
C27_MalformedRegexMatchesNothing ==
    /\ \A k \in 1..(sel.next - 1) :
          Malformed(sel.repo_patterns[k]) =>
              /\ k \in sel.no_match
              /\ \A j \in 1..Len(sel.all_repos) :
                    ~match_repo_pattern(strip(sel.repo_patterns[k]), sel.all_repos[j])
    /\ sel.returned =>
          /\ sel.next = Len(sel.repo_patterns) + 1
          /\ sel.specific_repos =
                get_specific_repositories(WithoutMalformed(sel.repo_patterns),
                                          sel.all_repos, 1, <<>>)

\* The malformed pattern came first and the pattern after it has selected
\* acme/app.
C27_Witness ==
    /\ sel.returned
    /\ sel.repo_patterns = <<"re:[", "github:acme/app">>
    /\ sel.no_match = {1}
    /\ Len(sel.specific_repos) >= 1

\* C28: a pattern that was handled is reported as a no-match exactly when it
\* matches no descriptor of the catalog, and every pattern of the list is
\* handled before the list is returned.
C28_NoMatchIffZeroMatches ==
    /\ \A k \in 1..(sel.next - 1) :
          (k \in sel.no_match) <=>
              ~\E j \in 1..Len(sel.all_repos) :
                   match_repo_pattern(strip(sel.repo_patterns[k]), sel.all_repos[j])
    /\ sel.returned => sel.next = Len(sel.repo_patterns) + 1

\* C7: the returned list holds no (platform, owner, name) triple twice and is
\* in the order of first match.
C7_ResolvedTriplesUnique ==
    sel.returned =>
        \A a, b \in 1..Len(sel.specific_repos) :
            a < b => /\ Triple(sel.specific_repos[a]) # Triple(sel.specific_repos[b])
                     /\ Before(FirstMatch(sel.specific_repos[a]),
                               FirstMatch(sel.specific_repos[b]))

====
